---- MODULE Spec2Model ----
(***************************************************************************)
(* Model of the ai-team tool-call pipeline: the tool registry and its      *)
(* validator, the ToolExecutor retry/timeout loop with its per-attempt      *)
(* goroutines, the ToolCallExtractor and the ExecuteChain loop.            *)
(*                                                                         *)
(* Strings that the code inspects character by character (tool names and   *)
(* argument keys, which go through toSnakeCaseLocal) are sequences of      *)
(* one-character strings, and so are all other string payloads.            *)
(***************************************************************************)
EXTENDS Integers, Sequences, FiniteSets, TLC

VARIABLES
    \* ---- validator / extractor harness (SpecVal) ----
    vReg,        \* the ToolRegistry the call is validated against
    vCall,       \* the tools.ToolCall handed to ValidateToolCall
    vErr,        \* the error ValidateToolCall returned
    vText,       \* the model output handed to ExtractToolCall
    vExt,        \* what ExtractToolCall returned
    vpc,         \* position of the harness
    \* ---- ToolExecutor.Execute (SpecExec) ----
    te,          \* the ToolExecutor fields RetryCount and Timeout
    eCall,       \* the call being executed
    epc,         \* position of the Execute caller goroutine
    attempt,     \* loop variable attempt
    lastErr,     \* the shared variable lastErr
    result,      \* result[i]: the per-iteration variable result of attempt i
    gor,         \* gor[i]: position of the goroutine started by attempt i
    implRes,     \* implRes[i]: what toolImpl.Execute returned in goroutine i
    branch,      \* branch[i]: the select case taken by attempt i
    early,       \* early[i]: goroutine i had returned when attempt i timed out
    invocations, \* number of toolImpl.Execute calls begun
    ret,         \* what Execute returned
    hook,        \* the events handed to te.MetricsHook, in order
    \* ---- ExecuteChain (SpecChain) ----
    chain,       \* chain.Steps
    script,      \* how the model-calling collaborator answers, call by call
    cpc,         \* position of ExecuteChain
    stepIdx,     \* index in chain.Steps of the step being run
    iter,        \* loop variable i of that step
    initialInput,\* the caller's map initialInput
    context,     \* the chain context
    lastToolResponse,
    roleCalls,   \* number of ExecuteRole invocations
    modelCalls,  \* number of calls of the model-calling collaborator
    stepCalls,   \* stepCalls[s]: ExecuteRole invocations made for step s
    condTrueAt,  \* condTrueAt[s]: iteration of step s whose condition was true
    toolExecs,   \* number of ToolExecutor.Execute calls
    fileWrites,  \* the paths the legacy fallback wrote with tools.WriteFile
    roleErrSeen, \* some ExecuteRole invocation returned an error
    workAfterErr,\* what ExecuteChain went on to do after such an error
    last,        \* what the most recent pass through the loop body did
    cret,        \* what ExecuteChain returned
    \* ---- toSnakeCaseLocal applied twice (SpecNorm) ----
    nIn,         \* the name or argument key s
    nOnce,       \* toSnakeCaseLocal(s)
    nTwice,      \* toSnakeCaseLocal(toSnakeCaseLocal(s))
    npc,         \* how many times it has been applied
    \* ---- evaluateLoopCondition on a rendered text (SpecCond) ----
    lcText,      \* the text the loop_condition template renders to
    lcOut,       \* what evaluateLoopCondition returned
    lcpc,        \* position of the harness
    \* ---- StartSession and handleToolCall (SpecSession) ----
    sess,        \* the Session fields and the extractor constructor in use
    spc,         \* position of StartSession
    si,          \* loop variable i of handleToolCall
    stc,         \* toolCall, the call to present
    steps,       \* session.Transcript.Steps
    presented,   \* number of UI.PrettyJSON presentations in handleToolCall
    sRoleCalls,  \* number of ExecuteRoleFunc calls
    sExecs,      \* number of ToolExecutor.Execute calls
    sImpl,       \* number of tool implementations run
    sBackups,    \* number of tools.BackupFile calls
    sWrites,     \* number of writeTranscript calls
    sLast,       \* the choice, call and events of the most recent iteration
    sExit        \* the way StartSession left off

valVars   == <<vReg, vCall, vErr, vText, vExt, vpc>>
execVars  == <<te, eCall, epc, attempt, lastErr, result, gor, implRes, branch,
               early, invocations, ret, hook>>
chainVars == <<chain, script, cpc, stepIdx, iter, initialInput, context,
               lastToolResponse,
               roleCalls, modelCalls, stepCalls, condTrueAt, toolExecs,
               fileWrites, roleErrSeen, workAfterErr, last, cret>>
normVars  == <<nIn, nOnce, nTwice, npc>>
condVars  == <<lcText, lcOut, lcpc>>
sessVars  == <<sess, spc, si, stc, steps, presented, sRoleCalls, sExecs, sImpl,
               sBackups, sWrites, sLast, sExit>>
vars == <<valVars, execVars, chainVars, normVars, condVars, sessVars>>

----------------------------------------------------------------------------
(* Characters and strings.Tolower                                          *)

UpperSeq == <<"A","B","C","D","E","F","G","H","I","J","K","L","M",
              "N","O","P","Q","R","S","T","U","V","W","X","Y","Z">>
LowerSeq == <<"a","b","c","d","e","f","g","h","i","j","k","l","m",
              "n","o","p","q","r","s","t","u","v","w","x","y","z">>

\* the lower-case letter of every upper-case letter
UpperToLower ==
    [c \in {UpperSeq[i] : i \in 1..Len(UpperSeq)} |->
        LowerSeq[CHOOSE i \in 1..Len(UpperSeq) : UpperSeq[i] = c]]

IsUpper(c) == c \in DOMAIN UpperToLower

ToLowerChar(c) == IF IsUpper(c) THEN UpperToLower[c] ELSE c

ToLower(s) == [i \in 1..Len(s) |-> ToLowerChar(s[i])]

\* the loop of toSnakeCaseLocal: an underscore goes before every upper-case
\* rune that is not the first rune
RECURSIVE SnakeRunes(_, _)
SnakeRunes(s, i) ==
    IF i > Len(s) THEN << >>
    ELSE (IF i > 1 /\ IsUpper(s[i]) THEN <<"_", s[i]>> ELSE <<s[i]>>)
         \o SnakeRunes(s, i + 1)

\* the conversion without the final strings.ToLower
toSnakeCaseLocalNoLower(s) == SnakeRunes(s, 1)

toSnakeCaseLocal(s) == ToLower(SnakeRunes(s, 1))

----------------------------------------------------------------------------
(* Names and keys used by the registry, the tests and the spec             *)

N_WriteFile  == <<"W","r","i","t","e","F","i","l","e">>
N_writeFile  == <<"w","r","i","t","e","F","i","l","e">>
N_write_file == <<"w","r","i","t","e","_","f","i","l","e">>
N_RunCommand == <<"R","u","n","C","o","m","m","a","n","d">>
N_ApplyPatch == <<"A","p","p","l","y","P","a","t","c","h">>
N_list_dir   == <<"l","i","s","t","_","d","i","r">>
N_TestInt    == <<"T","e","s","t","I","n","t">>
N_probe      == <<"p","r","o","b","e">>

K_filePath     == <<"f","i","l","e","P","a","t","h">>
K_file_path    == <<"f","i","l","e","_","p","a","t","h">>
K_content      == <<"c","o","n","t","e","n","t">>
K_command      == <<"c","o","m","m","a","n","d">>
K_patchContent == <<"p","a","t","c","h","C","o","n","t","e","n","t">>
K_path         == <<"p","a","t","h">>
K_count        == <<"c","o","u","n","t">>
K_flag         == <<"f","l","a","g">>

----------------------------------------------------------------------------
(* Dynamically typed values (interface{}): t is the Go dynamic type.       *)
(* encoding/json decodes every JSON number into float64; an int only       *)
(* arises from Go code.  Numbers are kept in tenths (20 is 2.0).           *)

StrV(c)   == [t |-> "string",  s |-> c, n |-> 0, b |-> FALSE, f |-> << >>, a |-> << >>, x |-> << >>]
FloatV(m) == [t |-> "float64", s |-> << >>, n |-> m, b |-> FALSE, f |-> << >>, a |-> << >>, x |-> << >>]
IntV(m)   == [t |-> "int",     s |-> << >>, n |-> 10 * m, b |-> FALSE, f |-> << >>, a |-> << >>, x |-> << >>]
BoolV(m)  == [t |-> "bool",    s |-> << >>, n |-> 0, b |-> m, f |-> << >>, a |-> << >>, x |-> << >>]
NilV      == [t |-> "nil",     s |-> << >>, n |-> 0, b |-> FALSE, f |-> << >>, a |-> << >>, x |-> << >>]
\* map[string]interface{} with entries m, []interface{} with items m
MapV(m)   == [t |-> "map",     s |-> << >>, n |-> 0, b |-> FALSE, f |-> m, a |-> << >>, x |-> << >>]
SliceV(m) == [t |-> "slice",   s |-> << >>, n |-> 0, b |-> FALSE, f |-> << >>, a |-> m, x |-> << >>]
\* a string that is a model output text (or a part of one), see Text below
TextV(m)  == [t |-> "string",  s |-> << >>, n |-> 0, b |-> FALSE, f |-> << >>, a |-> << >>, x |-> m]
\* what json.Unmarshal leaves for text that is not JSON, or for no text
NotJSON   == [t |-> "invalid", s |-> << >>, n |-> 0, b |-> FALSE, f |-> << >>, a |-> << >>, x |-> << >>]

\* payload strings
S_a_txt == <<"a", ".", "t", "x", "t">>
S_x     == <<"x">>
S_2     == <<"2">>
S_hello == <<"h", "e", "l", "l", "o">>
S_dot   == <<".">>

NoArgs == << >>

ToolCall(name, args) == [Name |-> name, Arguments |-> args]

----------------------------------------------------------------------------
(* Errors.  NilErr is the nil error.                                       *)

NilErr == [kind |-> "nil", tool |-> << >>, arg |-> << >>, attempt |-> 0]

ErrToolNotFound(name) ==
    [kind |-> "tool_not_found", tool |-> name, arg |-> << >>, attempt |-> 0]
ErrMissingArg(name, a) ==
    [kind |-> "missing_argument", tool |-> name, arg |-> a, attempt |-> 0]
ErrBadType(name, a) ==
    [kind |-> "bad_type", tool |-> name, arg |-> a, attempt |-> 0]
ErrImplNotFound(name) ==
    [kind |-> "impl_not_found", tool |-> name, arg |-> << >>, attempt |-> 0]
\* the error value toolImpl.Execute returned in the goroutine of attempt i
ErrImpl(name, i) ==
    [kind |-> "impl", tool |-> name, arg |-> << >>, attempt |-> i]
\* the error value fmt.Errorf builds in the timeout case of attempt i
ErrTimeout(name, i) ==
    [kind |-> "timeout", tool |-> name, arg |-> << >>, attempt |-> i]

----------------------------------------------------------------------------
(* ToolRegistry                                                            *)

ToolArgument(name, type, required) ==
    [Name |-> name, Type |-> type, Required |-> required]

ToolSchema(name, arguments) == [Name |-> name, Arguments |-> arguments]

NewToolRegistry == [tools |-> << >>, impls |-> << >>]

RegisterTool(r, schema, impl) ==
    [tools |-> (schema.Name :> schema) @@ r.tools,
     impls |-> (schema.Name :> impl) @@ r.impls]

\* GetToolSchema / GetToolImpl: the ok results, then the values
HasToolSchema(r, name) == name \in DOMAIN r.tools
GetToolSchema(r, name) == r.tools[name]
HasToolImpl(r, name) == name \in DOMAIN r.impls
GetToolImpl(r, name) == r.impls[name]

RegisterDefaultTools(r) ==
    LET r1 == RegisterTool(r,
                  ToolSchema(N_WriteFile,
                      <<ToolArgument(K_filePath, "string", TRUE),
                        ToolArgument(K_content, "string", TRUE)>>),
                  "WriteFileTool")
        r2 == RegisterTool(r1,
                  ToolSchema(N_RunCommand,
                      <<ToolArgument(K_command, "string", TRUE)>>),
                  "RunCommandTool")
    IN  RegisterTool(r2,
                  ToolSchema(N_ApplyPatch,
                      <<ToolArgument(K_filePath, "string", TRUE),
                        ToolArgument(K_patchContent, "string", TRUE)>>),
                  "ApplyPatchTool")

\* the type switch of ValidateToolCall: a type the switch does not list is
\* not checked
TypeOK(type, val) ==
    CASE type = "string" -> val.t = "string"
      [] type = "int"    -> val.t = "int"
      [] type = "bool"   -> val.t = "bool"
      [] OTHER           -> TRUE

\* the loop over schema.Arguments, from index i on
RECURSIVE ValidateArgs(_, _, _)
ValidateArgs(schema, call, i) ==
    IF i > Len(schema.Arguments) THEN NilErr
    ELSE LET arg    == schema.Arguments[i]
             exists == arg.Name \in DOMAIN call.Arguments
         IN  IF arg.Required /\ ~exists
             THEN ErrMissingArg(call.Name, arg.Name)
             ELSE IF exists /\ ~TypeOK(arg.Type, call.Arguments[arg.Name])
                  THEN ErrBadType(call.Name, arg.Name)
                  ELSE ValidateArgs(schema, call, i + 1)

\* the loop over schema.Arguments started one argument late
ValidateToolCallSkipFirst(r, call) ==
    IF ~HasToolSchema(r, call.Name)
    THEN ErrToolNotFound(call.Name)
    ELSE ValidateArgs(GetToolSchema(r, call.Name), call, 2)

ValidateToolCall(r, call) ==
    IF ~HasToolSchema(r, call.Name)
    THEN ErrToolNotFound(call.Name)
    ELSE ValidateArgs(GetToolSchema(r, call.Name), call, 1)

----------------------------------------------------------------------------
(* Model output text and the ToolCallExtractor                             *)
(*                                                                         *)
(* A text is kept as its shape and the JSON value it holds; Whole, Fence   *)
(* and Inline are the three views the extractor takes of it, each as the   *)
(* decoded JSON value (NotJSON when there is no such part or it does not   *)
(* decode).                                                                *)

K_tool_call == <<"t","o","o","l","_","c","a","l","l">>
K_name      == <<"n","a","m","e">>
K_arguments == <<"a","r","g","u","m","e","n","t","s">>
K_text      == <<"t","e","x","t">>

\* shape "plain": prose without braces; "json": the text is exactly the JSON
\* value j; "fenced": prose and a ```json block holding j; "inline": prose
\* around j; "prose_braces" and "braces": a { ... } part that is not JSON,
\* with and without prose around it
Text(shape, j) == [shape |-> shape, j |-> j]
PlainText      == Text("plain", NotJSON)
EmptyText      == Text("empty", NotJSON)
JSONText(j)    == Text("json", j)
FencedText(j)  == Text("fenced", j)
InlineText(j)  == Text("inline", j)
ProseBraces    == Text("prose_braces", NotJSON)
Braces         == Text("braces", NotJSON)

\* json.Unmarshal([]byte(s), &raw)
Whole(text) == IF text.shape = "json" THEN text.j ELSE NotJSON
\* the group captured by (?s)```json\s*(\{.*?\})\s*```
Fence(text) == IF text.shape = "fenced" THEN text.j ELSE NotJSON
\* s[start : end+1] for the first { and the last }
HasBraces(text) == text.shape \in {"json", "fenced", "inline", "prose_braces", "braces"}
BraceSub(text) ==
    CASE text.shape \in {"json", "fenced", "inline"} -> JSONText(text.j)
      [] text.shape \in {"prose_braces", "braces"}   -> Braces
      [] OTHER                                       -> text
Inline(text) == IF HasBraces(text) THEN Whole(BraceSub(text)) ELSE NotJSON

\* {"name": N, "arguments": A} and {"tool_call": {"name": N, "arguments": A}}
BareJSON(name, args) ==
    MapV((K_name :> StrV(name)) @@ (K_arguments :> MapV(args)))
EnvelopeJSON(name, args) == MapV(K_tool_call :> BareJSON(name, args))

NoCall == ToolCall(<< >>, << >>)
ParseFail == [ok |-> FALSE, tc |-> NoCall]
ParseOK(tc) == [ok |-> TRUE, tc |-> tc]

\* encoding/json matches an object key to a struct field exactly or, failing
\* that, case-insensitively
HasField(obj, key) ==
    \/ key \in DOMAIN obj.f
    \/ \E k \in DOMAIN obj.f : ToLower(k) = ToLower(key)
Field(obj, key) ==
    IF key \in DOMAIN obj.f THEN obj.f[key]
    ELSE obj.f[CHOOSE k \in DOMAIN obj.f : ToLower(k) = ToLower(key)]

\* json.Unmarshal of an object into types.ToolCall: decoded[1] is err == nil,
\* decoded[2] the Name, decoded[3] the Arguments
DecodeToolCall(obj) ==
    LET nm == IF HasField(obj, K_name) THEN Field(obj, K_name) ELSE NilV
        ag == IF HasField(obj, K_arguments) THEN Field(obj, K_arguments) ELSE NilV
    IN  <<nm.t \in {"string", "nil"} /\ ag.t \in {"map", "nil"},
          IF nm.t = "string" THEN nm.s ELSE << >>,
          IF ag.t = "map" THEN ag.f ELSE << >>>>

\* parseToolCallJSON without its checks of Name != ""
parseToolCallJSONAnyName(j) ==
    LET inner == IF j.t = "map" /\ HasField(j, K_tool_call)
                 THEN Field(j, K_tool_call) ELSE NilV
        req   == IF inner.t = "map" THEN DecodeToolCall(inner)
                 ELSE <<inner.t = "nil", << >>, << >>>>
    IN  IF j.t = "map" /\ req[1]
        THEN ParseOK(ToolCall(req[2], req[3]))
        ELSE ParseFail

\* parseToolCallJSON on the decoded form of its argument: first as a
\* ToolCallRequest, then as a bare ToolCall
parseToolCallJSON(j) ==
    LET inner == IF j.t = "map" /\ HasField(j, K_tool_call)
                 THEN Field(j, K_tool_call) ELSE NilV
        req   == IF inner.t = "map" THEN DecodeToolCall(inner)
                 ELSE <<inner.t = "nil", << >>, << >>>>
        tc    == DecodeToolCall(j)
    IN  IF j.t = "map" /\ req[1] /\ req[2] # << >>
        THEN ParseOK(ToolCall(req[2], req[3]))
        ELSE IF j.t = "map" /\ tc[1] /\ tc[2] # << >>
             THEN ParseOK(ToolCall(tc[2], tc[3]))
             ELSE ParseFail

\* the decoded form of a string value that itself holds JSON text
S_embedded == <<"{", "W", "F", "}">>
S_embedded_list_dir == <<"{", "L", "D", "}">>
StringAsJSON(s) ==
    IF s = S_embedded
    THEN EnvelopeJSON(N_WriteFile,
             (K_filePath :> StrV(S_a_txt)) @@ (K_content :> StrV(S_x)))
    ELSE IF s = S_embedded_list_dir
    THEN EnvelopeJSON(N_list_dir, (K_content :> StrV(S_x)))
    ELSE NotJSON

\* findToolCallInJSON: the tool calls it can return; Go ranges over a map in
\* an unspecified order, so any entry that yields a call can be the first
RECURSIVE findToolCallInJSON(_)
findToolCallInJSON(v) ==
    CASE v.t = "map" ->
           UNION { IF v.f[k].t = "string"
                   THEN LET p == parseToolCallJSON(StringAsJSON(v.f[k].s))
                        IN  IF p.ok THEN {p.tc} ELSE {}
                   ELSE findToolCallInJSON(v.f[k]) : k \in DOMAIN v.f }
      [] v.t = "slice" ->
           LET hits == {i \in 1..Len(v.a) : findToolCallInJSON(v.a[i]) # {}}
           IN  IF hits = {} THEN {}
               ELSE findToolCallInJSON(
                        v.a[CHOOSE i \in hits : \A j \in hits : i <= j])
      [] OTHER -> {}

\* normalizeToolCall: the normalized copies it can produce; when two keys
\* normalize to the same key the one ranged over first is kept
normalizeToolCall(tc) ==
    LET nkeys == {ToLower(toSnakeCaseLocal(k)) : k \in DOMAIN tc.Arguments}
        picks == {c \in [nkeys -> DOMAIN tc.Arguments] :
                     \A nk \in nkeys : ToLower(toSnakeCaseLocal(c[nk])) = nk}
    IN  {ToolCall(toSnakeCaseLocal(tc.Name),
                  [nk \in nkeys |-> tc.Arguments[c[nk]]]) : c \in picks}

\* Extract of the handlers NewDefaultToolCallExtractor installs
HandlerExtract(h, text) ==
    CASE h = "json_code_block" -> parseToolCallJSON(Fence(text))
      [] h = "inline_json"     -> parseToolCallJSON(Inline(text))
      [] OTHER                 -> ParseFail

\* the default handlers with the inline handler put first
InlineFirstExtractor(hasReg, reg) ==
    [Handlers |-> <<"inline_json", "json_code_block", "yaml_block">>,
     hasRegistry |-> hasReg, Registry |-> reg]

NewDefaultToolCallExtractor(hasReg, reg) ==
    [Handlers |-> <<"json_code_block", "inline_json", "yaml_block">>,
     hasRegistry |-> hasReg, Registry |-> reg]

Extracted(tc, h) == [found |-> TRUE, tc |-> tc, handler |-> h]
NoToolCallFound == [found |-> FALSE, tc |-> NoCall, handler |-> ""]

\* the check applied whether or not the extractor has a registry
AcceptsAlwaysValidates(e, norm) ==
    ValidateToolCall(e.Registry, norm) = NilErr

\* the registry check both stages of ExtractToolCall apply to a normalized
\* copy
Accepts(e, norm) ==
    ~e.hasRegistry \/ ValidateToolCall(e.Registry, norm) = NilErr

\* stage 2 of ExtractToolCall: the loop over e.Handlers from index i on
RECURSIVE HandlerLoop(_, _, _)
\* the loop returning the normalized copy it validated
HandlerLoopReturnsNorm(e, text, i) ==
    IF i > Len(e.Handlers) THEN {NoToolCallFound}
    ELSE LET h == e.Handlers[i]
             p == HandlerExtract(h, text)
         IN  IF ~p.ok THEN HandlerLoop(e, text, i + 1)
             ELSE UNION { IF Accepts(e, norm)
                          THEN {Extracted(norm, h)}
                          ELSE HandlerLoop(e, text, i + 1)
                          : norm \in normalizeToolCall(p.tc) }

HandlerLoop(e, text, i) ==
    IF i > Len(e.Handlers) THEN {NoToolCallFound}
    ELSE LET h == e.Handlers[i]
             p == HandlerExtract(h, text)
         IN  IF ~p.ok THEN HandlerLoop(e, text, i + 1)
             ELSE UNION { IF Accepts(e, norm)
                          THEN {Extracted(p.tc, h)}
                          ELSE HandlerLoop(e, text, i + 1)
                          : norm \in normalizeToolCall(p.tc) }

\* ExtractToolCall giving up when the call found in the parsed JSON is
\* turned down by the registry
ExtractToolCallScanDecides(e, text) ==
    LET founds == IF Whole(text).t = "invalid" THEN {}
                  ELSE findToolCallInJSON(Whole(text))
    IN  IF founds = {} THEN HandlerLoop(e, text, 1)
        ELSE UNION { UNION { IF Accepts(e, norm)
                             THEN {Extracted(found, "json_recursive")}
                             ELSE {NoToolCallFound}
                             : norm \in normalizeToolCall(found) }
                     : found \in founds }

\* ExtractToolCall: the results it can return for a text
ExtractToolCall(e, text) ==
    LET founds == IF Whole(text).t = "invalid" THEN {}
                  ELSE findToolCallInJSON(Whole(text))
    IN  IF founds = {} THEN HandlerLoop(e, text, 1)
        ELSE UNION { UNION { IF Accepts(e, norm)
                             THEN {Extracted(found, "json_recursive")}
                             ELSE HandlerLoop(e, text, 1)
                             : norm \in normalizeToolCall(found) }
                     : found \in founds }


----------------------------------------------------------------------------
(* Harness for the validator and the extractor: one call is validated and  *)
(* one text is extracted, against a registry built the way the code and    *)
(* its tests build one.                                                    *)

DefaultRegistry == RegisterDefaultTools(NewToolRegistry)

\* the registry of TestValidateToolCall_IntAcceptance
TestIntRegistry ==
    RegisterTool(NewToolRegistry,
        ToolSchema(N_TestInt, <<ToolArgument(K_count, "int", TRUE)>>),
        "ListDirTool")

\* a registry whose tool is registered under a snake_case name and keys
SnakeRegistry ==
    RegisterTool(NewToolRegistry,
        ToolSchema(N_write_file,
            <<ToolArgument(K_file_path, "string", TRUE),
              ToolArgument(K_content, "string", TRUE)>>),
        "WriteFileTool")

\* a registry that knows list_dir and no file-writing tool
ListDirRegistry ==
    RegisterTool(NewToolRegistry,
        ToolSchema(N_list_dir, <<ToolArgument(K_content, "string", TRUE)>>),
        "ListDirTool")

Registries == {DefaultRegistry, TestIntRegistry, SnakeRegistry, ListDirRegistry}

CallNames == {N_WriteFile, N_writeFile, N_write_file, N_TestInt, N_list_dir}

\* the values a call may carry under each key
KeyValues(k) ==
    IF k = K_count
    THEN {FloatV(20), FloatV(25), IntV(2), StrV(S_2)}
    ELSE {StrV(S_x), FloatV(20)}

ArgMaps(keys) ==
    UNION { {m \in [ks -> UNION {KeyValues(k) : k \in ks}] :
                \A k \in ks : m[k] \in KeyValues(k)} : ks \in SUBSET keys }

Calls ==
    {ToolCall(nm, m) :
        nm \in CallNames,
        m \in ArgMaps({K_filePath, K_file_path, K_content, K_count})}

\* a call two of whose keys normalize to file_path, with values of
\* different types
CollidingCall ==
    ToolCall(N_write_file, (K_filePath :> FloatV(20)) @@
                           (K_file_path :> StrV(S_a_txt)) @@
                           (K_content :> StrV(S_x)))

TextCalls ==
    {ToolCall(nm, m) :
        nm \in {N_WriteFile, N_writeFile, N_write_file, N_list_dir},
        m \in {[k \in ks |-> StrV(IF k = K_file_path THEN S_a_txt ELSE S_x)] :
                  ks \in SUBSET {K_filePath, K_file_path, K_content}}}
    \cup {CollidingCall}

\* a JSON object two of whose string fields hold a tool call each
TwoEmbeddedText ==
    JSONText(MapV((K_text :> StrV(S_embedded)) @@
                  (K_content :> StrV(S_embedded_list_dir))))

\* a JSON tool call one of whose arguments is a string holding another one
NestedText ==
    JSONText(EnvelopeJSON(N_list_dir, (K_content :> StrV(S_embedded))))

Texts ==
    {PlainText, ProseBraces, NestedText, TwoEmbeddedText,
     JSONText(MapV(K_text :> StrV(S_embedded))),
     JSONText(MapV(K_text :> StrV(S_hello)))}
    \cup {JSONText(EnvelopeJSON(c.Name, c.Arguments)) : c \in TextCalls}
    \cup {JSONText(BareJSON(c.Name, c.Arguments)) : c \in TextCalls}
    \cup {FencedText(EnvelopeJSON(c.Name, c.Arguments)) : c \in TextCalls}
    \cup {InlineText(EnvelopeJSON(c.Name, c.Arguments)) : c \in TextCalls}

NoExtraction == [found |-> FALSE, tc |-> NoCall, handler |-> "", withReg |-> FALSE]

ValInit ==
    /\ vReg \in Registries
    /\ \/ vCall \in Calls /\ vText = PlainText
       \/ vCall = ToolCall(N_probe, NoArgs) /\ vText \in Texts
    /\ vErr = NilErr
    /\ vExt = NoExtraction
    /\ vpc = "start"

ValIdle ==
    /\ vReg = NewToolRegistry
    /\ vCall = NoCall
    /\ vText = PlainText
    /\ vErr = NilErr
    /\ vExt = NoExtraction
    /\ vpc = "idle"

\* reg.ValidateToolCall(call)
Validate ==
    /\ vpc = "start"
    /\ vErr' = ValidateToolCall(vReg, vCall)
    /\ vpc' = "validated"
    /\ UNCHANGED <<vReg, vCall, vText, vExt>>
    /\ UNCHANGED <<execVars, chainVars, normVars, condVars, sessVars>>

\* NewDefaultToolCallExtractor(reg).ExtractToolCall(text), reg nil or not
Extract ==
    /\ vpc = "validated"
    /\ \E withReg \in BOOLEAN :
         \E r \in ExtractToolCall(
                     NewDefaultToolCallExtractor(withReg, vReg), vText) :
            vExt' = [found |-> r.found, tc |-> r.tc, handler |-> r.handler,
                     withReg |-> withReg]
    /\ vpc' = "extracted"
    /\ UNCHANGED <<vReg, vCall, vText, vErr>>
    /\ UNCHANGED <<execVars, chainVars, normVars, condVars, sessVars>>

ValNext == Validate \/ Extract

----------------------------------------------------------------------------
(* ToolExecutor.Execute.  The caller goroutine runs validation, the lookup *)
(* and the attempt loop; attempt i starts goroutine i, which calls         *)
(* toolImpl.Execute, assigns result (a variable of iteration i) and the    *)
(* shared lastErr, and closes done.  A goroutine whose attempt timed out   *)
(* is abandoned and runs on, also after Execute has returned.              *)

MaxRetryCount == 2

Attempts == 1..(MaxRetryCount + 1)

\* a loop bound that is one attempt too generous
RetriesOffByOne(rc) == rc + 1

\* retries := te.RetryCount; if retries < 1 { retries = 1 }
Retries(rc) == IF rc < 1 THEN 1 ELSE rc

NotReturned == [returned |-> FALSE, res |-> 0, err |-> NilErr]
Returned(res, err) == [returned |-> TRUE, res |-> res, err |-> err]

\* a well-formed call of a registered tool, and calls validation rejects
ExecCalls ==
    {ToolCall(N_WriteFile, (K_filePath :> StrV(S_a_txt)) @@ (K_content :> StrV(S_x))),
     ToolCall(N_WriteFile, (K_filePath :> StrV(S_a_txt))),
     ToolCall(N_WriteFile, (K_filePath :> StrV(S_a_txt)) @@ (K_content :> FloatV(20))),
     ToolCall(N_write_file, (K_file_path :> StrV(S_a_txt)) @@ (K_content :> StrV(S_x)))}

\* te.MetricsHook(name, fields): the event with the keys of its field map;
\* attempt is 0 when the map has no "attempt"
HookEvent(name, tool, keys, att) ==
    [name |-> name, tool |-> tool, keys |-> keys, attempt |-> att]

ExecInit ==
    /\ te \in [Registry : {DefaultRegistry}, RetryCount : 0..MaxRetryCount,
               Timeout : {0, 1}]
    /\ eCall \in ExecCalls
    /\ epc = "start"
    /\ attempt = 0
    /\ lastErr = NilErr
    /\ result = [i \in Attempts |-> 0]
    /\ gor = [i \in Attempts |-> "none"]
    /\ implRes = [i \in Attempts |-> "none"]
    /\ branch = [i \in Attempts |-> "none"]
    /\ early = [i \in Attempts |-> FALSE]
    /\ invocations = 0
    /\ ret = NotReturned
    /\ hook = << >>

ExecIdle ==
    /\ te = [Registry |-> NewToolRegistry, RetryCount |-> 0, Timeout |-> 0]
    /\ eCall = NoCall
    /\ epc = "idle"
    /\ attempt = 0
    /\ lastErr = NilErr
    /\ result = [i \in Attempts |-> 0]
    /\ gor = [i \in Attempts |-> "none"]
    /\ implRes = [i \in Attempts |-> "none"]
    /\ branch = [i \in Attempts |-> "none"]
    /\ early = [i \in Attempts |-> FALSE]
    /\ invocations = 0
    /\ ret = NotReturned
    /\ hook = << >>

\* validation, then the implementation lookup, then the loop is entered
ExecValidate ==
    /\ epc = "start"
    /\ LET err == ValidateToolCall(te.Registry, eCall)
       IN  IF err # NilErr
           THEN /\ ret' = Returned(0, err)
                /\ epc' = "done"
                /\ hook' = hook \o
                     <<HookEvent("tool_call_start", eCall.Name, {"tool", "args"}, 0),
                       HookEvent("tool_call_validation_failed", eCall.Name,
                                 {"tool", "error"}, 0)>>
                /\ UNCHANGED attempt
           ELSE IF ~HasToolImpl(te.Registry, eCall.Name)
                THEN /\ ret' = Returned(0, ErrImplNotFound(eCall.Name))
                     /\ epc' = "done"
                     /\ hook' = hook \o
                          <<HookEvent("tool_call_start", eCall.Name, {"tool", "args"}, 0),
                            HookEvent("tool_call_impl_not_found", eCall.Name,
                                      {"tool"}, 0)>>
                     /\ UNCHANGED attempt
                ELSE /\ attempt' = 1
                     /\ epc' = "loop"
                     /\ hook' = Append(hook,
                            HookEvent("tool_call_start", eCall.Name, {"tool", "args"}, 0))
                     /\ UNCHANGED ret
    /\ UNCHANGED <<te, eCall, lastErr, result, gor, implRes, branch, early,
                   invocations>>
    /\ UNCHANGED <<valVars, chainVars, normVars, condVars, sessVars>>

\* the events of the attempt loop
AttemptEvent(tool, att) ==
    HookEvent("tool_call_attempt", tool, {"tool", "attempt"}, att)
SuccessEvent(tool, att) ==
    HookEvent("tool_call_success", tool, {"tool", "attempt"}, att)
FailureEvent(tool, att) ==
    HookEvent("tool_call_failure", tool, {"tool", "attempt", "error"}, att)
\* the timeout event has the fields "tool" and "timeout" only
TimeoutEvent(tool, att) ==
    HookEvent("tool_call_timeout", tool, {"tool", "timeout"}, 0)

\* loop head with attempt <= retries: the context is made and the goroutine
\* of this attempt is started
StartAttempt ==
    /\ epc = "loop"
    /\ attempt <= Retries(te.RetryCount)
    /\ gor' = [gor EXCEPT ![attempt] = "spawned"]
    /\ epc' = "select"
    /\ hook' = Append(hook, AttemptEvent(eCall.Name, attempt))
    /\ UNCHANGED <<te, eCall, attempt, lastErr, result, implRes, branch, early,
                   invocations, ret>>
    /\ UNCHANGED <<valVars, chainVars, normVars, condVars, sessVars>>

\* goroutine i is scheduled and calls toolImpl.Execute(call.Arguments)
GoInvoke(i) ==
    /\ gor[i] = "spawned"
    /\ gor' = [gor EXCEPT ![i] = "running"]
    /\ invocations' = invocations + 1
    /\ UNCHANGED <<te, eCall, epc, attempt, lastErr, result, implRes, branch,
                   early, ret, hook>>
    /\ UNCHANGED <<valVars, chainVars, normVars, condVars, sessVars>>

\* toolImpl.Execute returns in goroutine i, and result, lastErr are assigned
GoReturn(i) ==
    /\ gor[i] = "running"
    /\ \E ok \in BOOLEAN :
          /\ implRes' = [implRes EXCEPT ![i] = IF ok THEN "ok" ELSE "err"]
          /\ result' = [result EXCEPT ![i] = IF ok THEN i ELSE 0]
          /\ lastErr' = IF ok THEN NilErr ELSE ErrImpl(eCall.Name, i)
    /\ gor' = [gor EXCEPT ![i] = "returned"]
    /\ UNCHANGED <<te, eCall, epc, attempt, branch, early, invocations, ret,
                   hook>>
    /\ UNCHANGED <<valVars, chainVars, normVars, condVars, sessVars>>

\* close(done) in goroutine i
GoClose(i) ==
    /\ gor[i] = "returned"
    /\ gor' = [gor EXCEPT ![i] = "closed"]
    /\ UNCHANGED <<te, eCall, epc, attempt, lastErr, result, implRes, branch,
                   early, invocations, ret, hook>>
    /\ UNCHANGED <<valVars, chainVars, normVars, condVars, sessVars>>

\* case <-done: of the select of the current attempt
SelectDone ==
    /\ epc = "select"
    /\ gor[attempt] = "closed"
    /\ branch' = [branch EXCEPT ![attempt] = "done"]
    /\ IF lastErr = NilErr
       THEN /\ ret' = Returned(result[attempt], NilErr)
            /\ epc' = "done"
            /\ hook' = Append(hook, SuccessEvent(eCall.Name, attempt))
            /\ UNCHANGED attempt
       ELSE /\ attempt' = attempt + 1
            /\ epc' = "loop"
            /\ hook' = Append(hook, FailureEvent(eCall.Name, attempt))
            /\ UNCHANGED ret
    /\ UNCHANGED <<te, eCall, lastErr, result, gor, implRes, early, invocations>>
    /\ UNCHANGED <<valVars, chainVars, normVars, condVars, sessVars>>

\* case <-ctx.Done(): of the select of the current attempt; without a
\* timeout the context is context.Background(), which is never done
SelectTimeout ==
    /\ epc = "select"
    /\ te.Timeout > 0
    /\ branch' = [branch EXCEPT ![attempt] = "timeout"]
    /\ early' = [early EXCEPT ![attempt] = gor[attempt] \in {"returned", "closed"}]
    /\ lastErr' = ErrTimeout(eCall.Name, attempt)
    /\ hook' = Append(hook, TimeoutEvent(eCall.Name, attempt))
    /\ attempt' = attempt + 1
    /\ epc' = "loop"
    /\ UNCHANGED <<te, eCall, result, gor, implRes, invocations, ret>>
    /\ UNCHANGED <<valVars, chainVars, normVars, condVars, sessVars>>

\* the loop is left with attempt > retries: return nil, lastErr
ReturnLastErr ==
    /\ epc = "loop"
    /\ attempt > Retries(te.RetryCount)
    /\ ret' = Returned(0, lastErr)
    /\ epc' = "done"
    /\ hook' = Append(hook, HookEvent("tool_call_final_failure", eCall.Name,
                                      {"tool", "retries", "error"}, 0))
    /\ UNCHANGED <<te, eCall, attempt, lastErr, result, gor, implRes, branch,
                   early, invocations>>
    /\ UNCHANGED <<valVars, chainVars, normVars, condVars, sessVars>>

ExecNext ==
    \/ ExecValidate
    \/ StartAttempt
    \/ SelectDone
    \/ SelectTimeout
    \/ ReturnLastErr
    \/ \E i \in Attempts : GoInvoke(i)
    \/ \E i \in Attempts : GoReturn(i)
    \/ \E i \in Attempts : GoClose(i)

----------------------------------------------------------------------------
(* Templates (html/template) and evaluateLoopCondition                     *)

\* a template is a sequence of literal text and {{.a.b}} field actions;
\* parseOK is whether template.Parse accepts it
Lit(c) == [k |-> "lit", s |-> c, path |-> << >>]
FieldRef(path) == [k |-> "field", s |-> << >>, path |-> path]
Template(ok, parts) == [parseOK |-> ok, parts |-> parts]

\* the empty string as a template
EmptyCond == Template(TRUE, << >>)

\* the escaping html/template applies to what an action prints
HTMLEscapeChar(c) ==
    CASE c = "&"  -> <<"&", "a", "m", "p", ";">>
      [] c = "<"  -> <<"&", "l", "t", ";">>
      [] c = ">"  -> <<"&", "g", "t", ";">>
      [] c = "'"  -> <<"&", "#", "3", "9", ";">>
      [] c = "\"" -> <<"&", "#", "3", "4", ";">>
      [] OTHER    -> <<c>>

RECURSIVE HTMLEscape(_)
HTMLEscape(c) ==
    IF c = << >> THEN << >> ELSE HTMLEscapeChar(Head(c)) \o HTMLEscape(Tail(c))

\* evaluation of a field chain from the receiver recv: a key a map lacks
\* gives no value, and so does any field of no value; a field of a nil
\* interface or of a value that is not a map is an execution error
RECURSIVE EvalFieldChain(_, _, _)
EvalFieldChain(recv, path, i) ==
    IF i > Len(path) THEN recv
    ELSE IF recv.st = "missing" THEN EvalFieldChain(recv, path, i + 1)
    ELSE IF recv.v.t = "map"
         THEN IF path[i] \in DOMAIN recv.v.f
              THEN EvalFieldChain([st |-> "ok", v |-> recv.v.f[path[i]]], path, i + 1)
              ELSE EvalFieldChain([st |-> "missing", v |-> NilV], path, i + 1)
         ELSE [st |-> "error", v |-> NilV]

\* what an action prints for the value it evaluated to; a model output
\* text, a number or a map prints as text that no condition of the model
\* compares with
PrintValue(r) ==
    IF r.st = "missing" \/ r.v.t = "nil" THEN << >>
    ELSE IF r.v.t = "string" /\ r.v.x = << >> THEN HTMLEscape(r.v.s)
    ELSE <<"#value">>

\* tmpl.Execute(&buf, data): the parts from index i on
RECURSIVE RenderParts(_, _, _)
RenderParts(parts, data, i) ==
    IF i > Len(parts) THEN [ok |-> TRUE, out |-> << >>]
    ELSE LET rest == RenderParts(parts, data, i + 1)
             r    == EvalFieldChain([st |-> "ok", v |-> MapV(data)], parts[i].path, 1)
         IN  IF parts[i].k = "lit"
             THEN [ok |-> rest.ok, out |-> parts[i].s \o rest.out]
             ELSE IF r.st = "error" THEN [ok |-> FALSE, out |-> << >>]
                  ELSE [ok |-> rest.ok, out |-> PrintValue(r) \o rest.out]

\* template.New(..).Parse(t) followed by Execute against data
Render(tmpl, data) ==
    IF ~tmpl.parseOK THEN [ok |-> FALSE, out |-> << >>]
    ELSE LET r == RenderParts(tmpl.parts, data, 1)
         IN  IF r.ok THEN r ELSE [ok |-> FALSE, out |-> << >>]

RECURSIVE TrimLeft(_, _)
TrimLeft(c, cut) ==
    IF c # << >> /\ Head(c) \in cut THEN TrimLeft(Tail(c), cut) ELSE c

RECURSIVE TrimRight(_, _)
TrimRight(c, cut) ==
    IF c # << >> /\ c[Len(c)] \in cut
    THEN TrimRight(SubSeq(c, 1, Len(c) - 1), cut) ELSE c

Trim(c, cut) == TrimRight(TrimLeft(c, cut), cut)
TrimSpace(c) == Trim(c, {" ", "\t", "\n", "\r"})

\* strings.Index: the first position of pat in c, 0 when there is none
Index(c, pat) ==
    LET hits == {i \in 1..(Len(c) - Len(pat) + 1) :
                    SubSeq(c, i, i + Len(pat) - 1) = pat}
    IN  IF hits = {} THEN 0 ELSE CHOOSE i \in hits : \A j \in hits : i <= j

\* the comparison with the right-hand side left as written
SplitCompareNoStrip(rendered, op) ==
    LET at    == Index(rendered, op)
        left  == TrimSpace(SubSeq(rendered, 1, at - 1))
        right == TrimSpace(SubSeq(rendered, at + Len(op), Len(rendered)))
    IN  left = right

\* the comparison evaluateLoopCondition makes around the first op
SplitCompare(rendered, op) ==
    LET at    == Index(rendered, op)
        left  == TrimSpace(SubSeq(rendered, 1, at - 1))
        right == Trim(TrimSpace(SubSeq(rendered, at + Len(op), Len(rendered))),
                      {" ", "\"", "'"})
    IN  left = right

\* evaluateLoopCondition: err is whether it returned an error, val its bool
evaluateLoopCondition(condTemplate, ctx) ==
    LET r        == Render(condTemplate, ctx)
        rendered == TrimSpace(r.out)
        lower    == ToLower(rendered)
    IN  IF ~r.ok THEN [err |-> TRUE, val |-> FALSE]
        ELSE [err |-> FALSE,
              val |-> IF lower = <<"t", "r", "u", "e">> THEN TRUE
                      ELSE IF lower = <<"f", "a", "l", "s", "e">> \/ rendered = << >>
                           THEN FALSE
                      ELSE IF Index(rendered, <<"=", "=">>) # 0
                           THEN SplitCompare(rendered, <<"=", "=">>)
                      ELSE IF Index(rendered, <<"!", "=">>) # 0
                           THEN ~SplitCompare(rendered, <<"!", "=">>)
                      ELSE FALSE]

----------------------------------------------------------------------------
(* ExecuteRole and ExecuteChain                                            *)

R_analist   == <<"a","n","a","l","i","s","t">>
R_architect == <<"a","r","c","h","i","t","e","c","t">>
R_reviewer  == <<"r","e","v","i","e","w","e","r">>
R_ghost     == <<"g","h","o","s","t">>
R_broken    == <<"b","r","o","k","e","n">>

K_problem               == <<"p","r","o","b","l","e","m">>
K_pre_design            == <<"p","r","e","_","d","e","s","i","g","n">>
K_design                == <<"d","e","s","i","g","n">>
K_initial_problem       == <<"i","n","i","t","i","a","l","_","p","r","o","b","l","e","m">>
K_lastToolResponse      == <<"l","a","s","t","T","o","o","l","R","e","s","p","o","n","s","e">>
K_lastToolResponse_json == K_lastToolResponse \o <<"_","j","s","o","n">>
K_error                 == <<"e","r","r","o","r">>
K_tool                  == <<"t","o","o","l">>
K_exec_error            == <<"e","x","e","c","_","e","r","r","o","r">>
K_candidates            == <<"c","a","n","d","i","d","a","t","e","s">>
K_parts                 == <<"p","a","r","t","s">>

\* types.Role and the models of config.Config the roles refer to
Role(provider, model, prompt) ==
    [Provider |-> provider, Model |-> model, Prompt |-> prompt]
PlainPrompt == Template(TRUE, <<Lit(<<"p","r","o","m","p","t">>)>>)
\* a prompt that reads a field of the previous tool response
ResponsePrompt ==
    Template(TRUE, <<Lit(<<"l","a","s","t",":"," ">>),
                     FieldRef(<<K_lastToolResponse, K_content>>)>>)
CfgModels == [gemini |-> {"gemini-25-flash"}, openai |-> {}, ollama |-> {}]
CfgRoles ==
    (R_analist   :> Role("gemini", "gemini-25-flash", PlainPrompt)) @@
    (R_architect :> Role("gemini", "gemini-25-flash", PlainPrompt)) @@
    (R_reviewer  :> Role("gemini", "gemini-25-flash", ResponsePrompt)) @@
    (R_broken    :> Role("", "gemini-25-flash", PlainPrompt))

\* what the model call returns: [text, err]
ModelAnswer(text, failed) == [text |-> text, err |-> failed]

\* the decoded field key of a JSON object, nil when v is no object or lacks it
Get(v, key) == IF v.t = "map" /\ HasField(v, key) THEN Field(v, key) ELSE NilV

\* cleanResponse / output: the text from its first { to its last }
CleanResponse(text) == IF HasBraces(text) THEN BraceSub(text) ELSE text

\* ExecuteRole: the set of [out, err, called] it can return, where called is
\* whether the model was called; answer is what the model call returns
ExecuteRole(role, input, answer) ==
    IF \/ ~Render(role.Prompt, input).ok
       \/ role.Provider \notin DOMAIN CfgModels
       \/ role.Model \notin CfgModels[role.Provider]
    THEN {[out |-> EmptyText, err |-> TRUE, called |-> FALSE]}
    ELSE {[out    |-> IF r.found
                      THEN JSONText(BareJSON(r.tc.Name, r.tc.Arguments))
                      ELSE CleanResponse(answer.text),
           err    |-> answer.err,
           called |-> TRUE] :
             r \in ExtractToolCall(
                       NewDefaultToolCallExtractor(TRUE, DefaultRegistry),
                       answer.text)}

\* types.ChainRole; an Input value is a literal or a "{{...}}" template
InLit(v)  == [tmpl |-> FALSE, t |-> EmptyCond, v |-> v]
InTmpl(t) == [tmpl |-> TRUE, t |-> t, v |-> NilV]
ChainRole(role, name, input, outputKey, loop, loopCount, loopCondition) ==
    [Role |-> role, Name |-> name, Input |-> input, OutputKey |-> outputKey,
     Loop |-> loop, LoopCount |-> loopCount, LoopCondition |-> loopCondition]

\* a guard that lets one pass more through
MaxLoopOneMore == 100 + 1

\* maxLoop of ExecuteChain
MaxLoop == 100

\* loopCount with maxLoop as the default of every looping step
LoopCountOfDefaultMax(chainRole) ==
    IF chainRole.Loop
    THEN IF chainRole.LoopCount > 0 THEN chainRole.LoopCount ELSE MaxLoop
    ELSE 1

\* loopCount of ExecuteChain for one step
LoopCountOf(chainRole) ==
    IF chainRole.Loop
    THEN IF chainRole.LoopCount > 0 THEN chainRole.LoopCount
         ELSE IF chainRole.LoopCondition # EmptyCond THEN MaxLoop
         ELSE 1
    ELSE 1

\* roleKey of ExecuteChain
RoleKey(chainRole) ==
    IF chainRole.Role = << >> THEN chainRole.Name ELSE chainRole.Role

\* a roleInput map in which a template that fails to render leaves the
\* text rendered so far
RoleInputIgnoresFailure(chainRole, ctx, ltr) ==
    LET inp == chainRole.Input
    IN  [ok |-> TRUE,
         m  |-> (K_lastToolResponse :> ltr) @@
                (K_lastToolResponse_json :>
                     StrV(IF ltr.t = "nil" THEN << >> ELSE <<"#json">>)) @@
                [k \in DOMAIN inp |->
                     IF inp[k].tmpl THEN StrV(Render(inp[k].t, ctx).out)
                     ELSE inp[k].v]]

\* the roleInput map built from chainRole.Input and lastToolResponse; ok is
\* whether every input template parsed and executed
RoleInput(chainRole, ctx, ltr) ==
    LET inp == chainRole.Input
    IN  [ok |-> \A k \in DOMAIN inp : inp[k].tmpl => Render(inp[k].t, ctx).ok,
         m  |-> (K_lastToolResponse :> ltr) @@
                (K_lastToolResponse_json :>
                     StrV(IF ltr.t = "nil" THEN << >> ELSE <<"#json">>)) @@
                [k \in DOMAIN inp |->
                     IF inp[k].tmpl THEN StrV(Render(inp[k].t, ctx).out)
                     ELSE inp[k].v]]

\* toolCallText: the text of the first part of the first candidate when
\* rawOutput decodes as a Gemini response that has one, else rawOutput
GeminiText(rawOutput) ==
    LET cands == Get(Whole(rawOutput), K_candidates)
        parts == IF cands.t = "slice" /\ Len(cands.a) > 0
                 THEN Get(Get(cands.a[1], K_content), K_parts) ELSE NilV
        text  == IF parts.t = "slice" /\ Len(parts.a) > 0
                 THEN Get(parts.a[1], K_text) ELSE NilV
    IN  IF text.t = "string" /\ text.x # << >> THEN text.x ELSE rawOutput

\* the decoding of output into the legacy struct {file_path, content}
LegacyFile(output) ==
    LET j  == Whole(output)
        fp == Get(j, K_file_path)
        ct == Get(j, K_content)
    IN  [ok |-> /\ j.t = "map"
                /\ fp.t = "string" /\ fp.x = << >> /\ fp.s # << >>
                /\ ct.t \in {"string", "nil"} /\ ct.x = << >>,
         FilePath |-> fp.s,
         Content  |-> ct.s]

\* ToolExecutor{RetryCount: 1, Timeout: 0}.Execute(call) as the chain runs
\* it: one attempt that the caller waits for
S_done == <<"#done">>
ChainExecute(reg, call) ==
    LET verr == ValidateToolCall(reg, call)
    IN  IF verr # NilErr THEN {[res |-> NilV, err |-> verr]}
        ELSE IF ~HasToolImpl(reg, call.Name)
             THEN {[res |-> NilV, err |-> ErrImplNotFound(call.Name)]}
             ELSE {[res |-> StrV(S_done), err |-> NilErr],
                   [res |-> NilV, err |-> ErrImpl(call.Name, 1)]}
NoExecute == [res |-> NilV, err |-> NilErr]

\* the map ExecuteChain keeps as lastToolResponse when Execute failed
ExecErrorResponse(name) ==
    MapV((K_error :> StrV(<<"tool execution failed">>)) @@
         (K_tool :> StrV(name)) @@
         (K_exec_error :> StrV(<<"#error">>)))

\* the value stored under OutputKey
OutputValue(ltr, output) ==
    LET content == Get(ltr, K_content)
    IN  IF ltr.t = "map" /\ K_content \in DOMAIN ltr.f
           /\ content.t = "string" /\ (content.s # << >> \/ content.x # << >>)
        THEN content
        ELSE TextV(output)

Without(ctx, key) == [k \in DOMAIN ctx \ {key} |-> ctx[k]]

----------------------------------------------------------------------------
(* Harness for ExecuteChain: a chain of at most MaxSteps steps runs        *)
(* against a scripted model.                                               *)

MaxSteps == 2
MaxLoopCount == 4

\* {{.tool_call.name}} == 'write_file'
CondWriteFile ==
    Template(TRUE, <<FieldRef(<<K_tool_call, K_name>>),
                     Lit(<<" ", "=", "=", " ", "'">> \o N_write_file \o <<"'">>)>>)
\* {{.pre_design}} == "x"
CondPreDesign ==
    Template(TRUE, <<FieldRef(<<K_pre_design>>),
                     Lit(<<" ", "=", "=", " ", "\"">> \o S_x \o <<"\"">>)>>)
\* {{.pre_design.name}} != 'x'
CondFieldOfString ==
    Template(TRUE, <<FieldRef(<<K_pre_design, K_name>>),
                     Lit(<<" ", "!", "=", " ", "'">> \o S_x \o <<"'">>)>>)

ProblemInput == K_problem :> InLit(StrV(S_hello))
\* an input "{{.pre_design.name}}"
FieldInput ==
    K_problem :> InTmpl(Template(TRUE, <<FieldRef(<<K_pre_design, K_name>>)>>))

\* an input "{{.pre_design}}"
DesignInput ==
    K_problem :> InTmpl(Template(TRUE, <<FieldRef(<<K_pre_design>>)>>))

Steps ==
    { ChainRole(R_analist, << >>, ProblemInput, K_pre_design, TRUE,
                MaxLoopCount, CondWriteFile),
      ChainRole(R_analist, << >>, ProblemInput, K_pre_design, TRUE,
                MaxLoopCount, CondPreDesign),
      ChainRole(R_analist, << >>, ProblemInput, K_pre_design, TRUE,
                0, CondPreDesign),
      ChainRole(R_analist, << >>, ProblemInput, K_pre_design, TRUE,
                MaxLoopCount, CondFieldOfString),
      ChainRole(<< >>, R_architect, FieldInput, K_design, FALSE,
                MaxLoopCount, EmptyCond),
      ChainRole(R_reviewer, << >>, DesignInput, << >>, TRUE, 0, EmptyCond),
      ChainRole(R_broken, << >>, ProblemInput, K_design, TRUE, 2, EmptyCond),
      ChainRole(R_ghost, << >>, ProblemInput, << >>, FALSE, 0, EmptyCond) }

\* a step that may run maxLoop times is checked as a chain of its own
ShortSteps == {st \in Steps : LoopCountOf(st) <= MaxLoopCount}
Chains ==
    UNION {[1..n -> ShortSteps] : n \in 1..MaxSteps}
    \cup {<<st>> : st \in Steps}

\* what the scripted model can answer
FileArgsSnake == (K_file_path :> StrV(S_a_txt)) @@ (K_content :> StrV(S_x))
FileArgsCamel == (K_filePath :> StrV(S_a_txt)) @@ (K_content :> StrV(S_x))
ListDirAnswer   == JSONText(EnvelopeJSON(N_list_dir, K_path :> StrV(S_dot)))
WriteFileAnswer == JSONText(EnvelopeJSON(N_write_file, FileArgsSnake))
CamelAnswer     == JSONText(EnvelopeJSON(N_WriteFile, FileArgsCamel))
LegacyAnswer    == JSONText(MapV(FileArgsSnake))

\* the model answers first on its calls before call number at and then from
\* there on; its call number errAt fails
Script(first, then, at, errAt) ==
    [first |-> first, then |-> then, at |-> at, errAt |-> errAt]
Scripts ==
    { Script(f, t, a, e) :
        f \in {ListDirAnswer},
        t \in {ListDirAnswer, WriteFileAnswer, CamelAnswer, LegacyAnswer,
                PlainText},
        a \in {1, 3}, e \in {0, 2} }

\* ai.CallGeminiFunc on the model's call number n
Answer(sc, n) ==
    ModelAnswer(IF n = sc.errAt THEN EmptyText
                ELSE IF n < sc.at THEN sc.first ELSE sc.then,
                n = sc.errAt)

\* initialInput of ExecuteChain: the caller's map, which may hold any key
InitialInputs ==
    {(K_initial_problem :> StrV(S_x)),
     (K_initial_problem :> StrV(S_x)) @@
         (K_tool_call :> BareJSON(N_write_file, FileArgsSnake))}

NoWork == [role |-> FALSE, extract |-> FALSE, exec |-> FALSE,
           write |-> FALSE, ctx |-> FALSE]
\* no pass through the loop body has been made
NoIteration ==
    [n |-> 0, input |-> << >>, text |-> EmptyText, found |-> FALSE,
     tc |-> NoCall, exec |-> NoExecute, wrote |-> FALSE, writeErr |-> FALSE,
     key |-> << >>, condErr |-> FALSE]
NotReturnedChain == [returned |-> FALSE, err |-> "nil", role |-> << >>]
ReturnedChain(err) == [returned |-> TRUE, err |-> err, role |-> << >>]
\* an error whose message names the role key
ChainError(kind, role) == [returned |-> TRUE, err |-> kind, role |-> role]

ChainInit ==
    /\ chain \in Chains
    /\ script \in Scripts
    /\ cpc = "run"
    /\ stepIdx = 1
    /\ iter = 0
    /\ initialInput \in InitialInputs
    /\ context = [k \in DOMAIN initialInput |-> initialInput[k]]
    /\ lastToolResponse = NilV
    /\ roleCalls = 0
    /\ modelCalls = 0
    /\ stepCalls = [i \in 1..MaxSteps |-> 0]
    /\ condTrueAt = [i \in 1..MaxSteps |-> 0]
    /\ toolExecs = 0
    /\ fileWrites = {}
    /\ roleErrSeen = FALSE
    /\ workAfterErr = NoWork
    /\ last = NoIteration
    /\ cret = NotReturnedChain

ChainIdle ==
    /\ chain = << >>
    /\ script = Script(PlainText, PlainText, 1, 0)
    /\ cpc = "idle"
    /\ stepIdx = 1
    /\ iter = 0
    /\ initialInput = << >>
    /\ context = << >>
    /\ lastToolResponse = NilV
    /\ roleCalls = 0
    /\ modelCalls = 0
    /\ stepCalls = [i \in 1..MaxSteps |-> 0]
    /\ condTrueAt = [i \in 1..MaxSteps |-> 0]
    /\ toolExecs = 0
    /\ fileWrites = {}
    /\ roleErrSeen = FALSE
    /\ workAfterErr = NoWork
    /\ last = NoIteration
    /\ cret = NotReturnedChain

\* an early "return nil, err" of ExecuteChain
ChainFail(kind) ==
    /\ cpc' = "done"
    /\ cret' = ChainError(kind, RoleKey(chain[stepIdx]))
    /\ UNCHANGED <<chain, script, stepIdx, iter, initialInput, context,
                   lastToolResponse, roleCalls, modelCalls, stepCalls,
                   condTrueAt, toolExecs, fileWrites, roleErrSeen,
                   workAfterErr, last>>

\* a context that is the caller's map itself
CallerMapShared(initial, ctx) == ctx

\* the caller's map after an assignment to the context ctx: the context is
\* a map of its own, filled from initialInput entry by entry
CallerMap(initial, ctx) == initial

\* the break taken also when the condition could not be evaluated
LoopBreaksOnError(cond) == cond.err \/ cond.val

\* whether the inner loop breaks on what evaluateLoopCondition returned
LoopBreaks(cond) == ~cond.err /\ cond.val

\* the body of the inner loop from the return of ExecuteRole on: ro is what
\* ExecuteRole returned, ex what the extractor returned for toolCallText and
\* eo what Execute returned when a call was extracted
AfterRole(chainRole, ro, ex, eo) ==
    LET toolCallText == GeminiText(ro.out)
        output == IF ex.found
                  THEN JSONText(BareJSON(ex.tc.Name, ex.tc.Arguments))
                  ELSE CleanResponse(toolCallText)
        legacy == LegacyFile(output)
        ltr    == IF ex.found
                  THEN IF eo.err # NilErr THEN ExecErrorResponse(ex.tc.Name)
                       ELSE eo.res
                  ELSE IF legacy.ok
                       THEN MapV((K_file_path :> StrV(legacy.FilePath)) @@
                                 (K_content :> StrV(legacy.Content)))
                       ELSE NilV
        ctx1   == IF ex.found
                  THEN (K_tool_call :> BareJSON(ex.tc.Name, ex.tc.Arguments))
                       @@ context
                  ELSE IF legacy.ok THEN context
                       ELSE Without(context, K_tool_call)
        ctx2   == IF chainRole.OutputKey # << >>
                  THEN (chainRole.OutputKey :> OutputValue(ltr, output)) @@ ctx1
                  ELSE ctx1
        cond   == IF chainRole.LoopCondition # EmptyCond
                  THEN evaluateLoopCondition(chainRole.LoopCondition, ctx2)
                  ELSE [err |-> FALSE, val |-> FALSE]
        brk    == LoopBreaks(cond)
        wrote  == ~ex.found /\ legacy.ok
    IN  /\ context' = ctx2
        /\ initialInput' = CallerMap(initialInput, ctx2)
        /\ lastToolResponse' = ltr
        /\ roleCalls' = roleCalls + 1
        /\ modelCalls' = modelCalls + (IF ro.called THEN 1 ELSE 0)
        /\ stepCalls' = [stepCalls EXCEPT ![stepIdx] = @ + 1]
        /\ condTrueAt' = IF brk THEN [condTrueAt EXCEPT ![stepIdx] = iter + 1]
                         ELSE condTrueAt
        /\ toolExecs' = toolExecs + (IF ex.found THEN 1 ELSE 0)
        /\ fileWrites' = IF wrote THEN fileWrites \cup {legacy.FilePath}
                         ELSE fileWrites
        /\ roleErrSeen' = (roleErrSeen \/ ro.err)
        /\ workAfterErr' =
             IF roleErrSeen \/ ro.err
             THEN [role    |-> workAfterErr.role \/ roleErrSeen,
                   extract |-> TRUE,
                   exec    |-> workAfterErr.exec \/ ex.found,
                   write   |-> workAfterErr.write \/ wrote,
                   ctx     |-> workAfterErr.ctx \/ ctx2 # context]
             ELSE workAfterErr
        /\ \E werr \in (IF wrote THEN BOOLEAN ELSE {FALSE}) :
             last' = [n        |-> roleCalls + 1,
                      input    |-> RoleInput(chainRole, context,
                                             lastToolResponse).m,
                      text     |-> toolCallText,
                      found    |-> ex.found,
                      tc       |-> ex.tc,
                      exec     |-> eo,
                      wrote    |-> wrote,
                      writeErr |-> werr,
                      key      |-> chainRole.OutputKey,
                      condErr  |-> cond.err]
        /\ IF brk \/ iter + 1 >= LoopCountOf(chainRole)
           THEN stepIdx' = stepIdx + 1 /\ iter' = 0
           ELSE stepIdx' = stepIdx /\ iter' = iter + 1
        /\ UNCHANGED <<chain, script, cpc, cret>>

\* one pass through the body of the inner loop of ExecuteChain
ChainIterate ==
    /\ cpc = "run"
    /\ stepIdx <= Len(chain)
    /\ LET chainRole == chain[stepIdx]
           roleKey   == RoleKey(chainRole)
           roleInput == RoleInput(chainRole, context, lastToolResponse)
       IN  IF roleKey \notin DOMAIN CfgRoles THEN ChainFail("role_not_found")
           ELSE IF ~roleInput.ok THEN ChainFail("input_template")
           ELSE \E ro \in ExecuteRole(CfgRoles[roleKey], roleInput.m,
                                      Answer(script, modelCalls + 1)) :
                \E ex \in ExtractToolCall(
                              NewDefaultToolCallExtractor(TRUE, DefaultRegistry),
                              GeminiText(ro.out)) :
                \E eo \in (IF ex.found
                           THEN ChainExecute(DefaultRegistry, ex.tc)
                           ELSE {NoExecute}) :
                    AfterRole(chainRole, ro, ex, eo)
    /\ UNCHANGED <<valVars, execVars, normVars, condVars, sessVars>>

\* the "return context, nil" after the last step
ChainReturn ==
    /\ cpc = "run"
    /\ stepIdx > Len(chain)
    /\ cpc' = "done"
    /\ cret' = ReturnedChain("nil")
    /\ UNCHANGED <<chain, script, stepIdx, iter, initialInput, context,
                   lastToolResponse, roleCalls, modelCalls, stepCalls,
                   condTrueAt, toolExecs, fileWrites, roleErrSeen,
                   workAfterErr, last>>
    /\ UNCHANGED <<valVars, execVars, normVars, condVars, sessVars>>

ChainNext == ChainIterate \/ ChainReturn

----------------------------------------------------------------------------
(* Harness for toSnakeCaseLocal: it is applied to a string and then to its *)
(* own result.                                                             *)

MaxLen == 4
NormAlphabet == {"a", "B", "Z", "_"}
NormStrings == UNION {[1..n -> NormAlphabet] : n \in 0..MaxLen}

NormInit ==
    /\ nIn \in NormStrings
    /\ nOnce = << >>
    /\ nTwice = << >>
    /\ npc = 0

NormIdle ==
    /\ nIn = << >>
    /\ nOnce = << >>
    /\ nTwice = << >>
    /\ npc = -1

NormalizeOnce ==
    /\ npc = 0
    /\ nOnce' = toSnakeCaseLocal(nIn)
    /\ npc' = 1
    /\ UNCHANGED <<nIn, nTwice>>
    /\ UNCHANGED <<valVars, execVars, chainVars, condVars, sessVars>>

NormalizeTwice ==
    /\ npc = 1
    /\ nTwice' = toSnakeCaseLocal(nOnce)
    /\ npc' = 2
    /\ UNCHANGED <<nIn, nOnce>>
    /\ UNCHANGED <<valVars, execVars, chainVars, condVars, sessVars>>

NormNext == NormalizeOnce \/ NormalizeTwice

----------------------------------------------------------------------------
(* Harness for evaluateLoopCondition: a condition that is literal text, and *)
(* so renders to itself, is evaluated once.                                *)

MaxCondLen == 5
CondTokens == {<<"a">>, <<"b">>, <<" ">>, <<"'">>, <<"=", "=">>, <<"!", "=">>}

RECURSIVE Flatten(_)
Flatten(ss) == IF ss = << >> THEN << >> ELSE Head(ss) \o Flatten(Tail(ss))

CondTexts ==
    {Flatten(ts) : ts \in UNION {[1..n -> CondTokens] : n \in 0..MaxCondLen}}
    \cup {<<"t", "r", "u", "e">>, <<"T", "R", "U", "E">>, <<"T", "r", "u", "e">>,
          <<" ", "t", "r", "u", "e", " ">>, <<"f", "a", "l", "s", "e">>,
          <<"F", "a", "l", "s", "E">>, <<"t", "r", "u", "e", "=", "=", "t", "r", "u", "e">>,
          <<"a", "=", "b">>, <<"a", " ", "=", "=", " ", "\"", "a", "\"">>}

NoCondResult == [err |-> FALSE, val |-> FALSE]

CondInit ==
    /\ lcText \in CondTexts
    /\ lcOut = NoCondResult
    /\ lcpc = "start"

CondIdle ==
    /\ lcText = << >>
    /\ lcOut = NoCondResult
    /\ lcpc = "idle"

EvaluateCondition ==
    /\ lcpc = "start"
    /\ lcOut' = evaluateLoopCondition(Template(TRUE, <<Lit(lcText)>>), << >>)
    /\ lcpc' = "done"
    /\ UNCHANGED lcText
    /\ UNCHANGED <<valVars, execVars, chainVars, normVars, sessVars>>

CondNext == EvaluateCondition

----------------------------------------------------------------------------
(* The interactive session: StartSession and handleToolCall.  One action   *)
(* is one call of StartSession up to its next wait, and one iteration of   *)
(* the loop of handleToolCall.  The user (UI), the model (ExecuteRoleFunc), *)
(* the file system and the tool implementations answer in any way.         *)

MaxSessionIterations == 2

N_run_command == <<"r","u","n","_","c","o","m","m","a","n","d">>

\* the tool calls the model and the editor can produce
SessCalls ==
    { ToolCall(N_WriteFile, (K_file_path :> StrV(S_a_txt)) @@
                            (K_filePath :> StrV(S_a_txt)) @@
                            (K_content :> StrV(S_x))),
      ToolCall(N_write_file, FileArgsSnake),
      ToolCall(N_WriteFile, FileArgsCamel),
      ToolCall(N_RunCommand, (K_command :> StrV(S_x))),
      ToolCall(N_ApplyPatch, (K_filePath :> StrV(S_a_txt)) @@
                             (K_patchContent :> StrV(S_x))) }

\* what ExecuteRoleFunc can return: an error, plain text, or a tool call
RoleOutcomes ==
    {[err |-> TRUE, text |-> EmptyText], [err |-> FALSE, text |-> PlainText]}
    \cup {[err |-> FALSE, text |-> JSONText(EnvelopeJSON(c.Name, c.Arguments))]
            : c \in SessCalls}

\* NewToolCallExtractorFunc(toolRegistry): ai.NewDefaultToolCallExtractor on
\* the registry of RegisterDefaultTools, or the replacement a test installs
SessExtractor ==
    IF sess.DefaultExtractor
    THEN NewDefaultToolCallExtractor(TRUE, DefaultRegistry)
    ELSE NewDefaultToolCallExtractor(FALSE, NewToolRegistry)

StringArg(call, key) ==
    key \in DOMAIN call.Arguments /\ call.Arguments[key].t = "string"

IsWriteFile(call)  == call.Name \in {N_write_file, N_WriteFile}
IsRunCommand(call) == call.Name \in {N_run_command, N_RunCommand}

\* what approveAndExecute returns, with the events it went through
Outcome(res, continueLoop, events) ==
    [result |-> res, continueLoop |-> continueLoop, events |-> events]

\* tools.BackupFile: a backup was made, there was no file to back up, or
\* it failed
BackupFile == {"backup_made", "backup_none", "backup_error"}

\* UI.Confirm
Confirm == {"yes", "no", "error"}

\* the call toolExecutor.Execute of approveAndExecute after the events ev
ExecuteAfter(call, ev) ==
    { Outcome(eo.res, eo.err = NilErr,
              ev \o <<"execute">> \o
              (IF ValidateToolCall(DefaultRegistry, call) = NilErr
                  /\ HasToolImpl(DefaultRegistry, call.Name)
               THEN <<"impl">> ELSE << >>))
        : eo \in ChainExecute(DefaultRegistry, call) }

\* approveAndExecute with dryRun set
approveDryRun(call) ==
    IF IsWriteFile(call)
       /\ ~(StringArg(call, K_file_path) /\ StringArg(call, K_content))
    THEN {Outcome(NilV, FALSE, << >>)}
    ELSE {Outcome(NilV, TRUE, << >>)}

\* approveAndExecute without dryRun, executing before the backup is made
approveForRealBackupLast(call) ==
    IF IsWriteFile(call)
    THEN IF ~(StringArg(call, K_file_path) /\ StringArg(call, K_content))
         THEN {Outcome(NilV, FALSE, << >>)}
         ELSE UNION { IF c # "yes"
                      THEN {Outcome(NilV, FALSE, <<"apply_" \o c>>)}
                      ELSE UNION { {Outcome(o.result, o.continueLoop /\ b # "backup_error",
                                            o.events \o <<b>>)
                                      : o \in ExecuteAfter(call, <<"apply_yes">>)}
                                   : b \in BackupFile }
                      : c \in Confirm }
    ELSE ExecuteAfter(call, << >>)

\* approveAndExecute without dryRun
approveForReal(call) ==
    IF IsWriteFile(call)
    THEN IF ~(StringArg(call, K_file_path) /\ StringArg(call, K_content))
         THEN {Outcome(NilV, FALSE, << >>)}
         ELSE UNION { IF c # "yes"
                      THEN {Outcome(NilV, FALSE, <<"apply_" \o c>>)}
                      ELSE UNION { IF b = "backup_error"
                                   THEN {Outcome(NilV, FALSE, <<"apply_yes", b>>)}
                                   ELSE ExecuteAfter(call, <<"apply_yes", b>>)
                                   : b \in BackupFile }
                      : c \in Confirm }
    ELSE IF IsRunCommand(call)
    THEN IF ~StringArg(call, K_command)
         THEN {Outcome(NilV, FALSE, << >>)}
         ELSE UNION { IF c # "yes"
                      THEN {Outcome(NilV, FALSE, <<"run_" \o c>>)}
                      ELSE ExecuteAfter(call, <<"run_yes">>)
                      : c \in Confirm }
    ELSE ExecuteAfter(call, << >>)

\* approveAndExecute that does not look at dryRun
approveAndExecuteForReal(call, dryRun) == approveForReal(call)

approveAndExecute(call, dryRun) ==
    IF dryRun THEN approveDryRun(call) ELSE approveForReal(call)

\* the number of times ev occurs in events
RECURSIVE Count(_, _)
Count(events, ev) ==
    IF events = << >> THEN 0
    ELSE (IF Head(events) = ev THEN 1 ELSE 0) + Count(Tail(events), ev)

Step(choice, approved) == [choice |-> choice, approved |-> approved]
NoChoice == [choice |-> "none", call |-> NoCall, events |-> << >>]

\* the Session values StartSession is called with
Sessions ==
    [DryRun : BOOLEAN, Yes : BOOLEAN, MaxIterations : 0..MaxSessionIterations,
     HasTranscriptPath : BOOLEAN, DefaultExtractor : BOOLEAN]

SessInit ==
    /\ sess \in Sessions
    /\ spc = "start"
    /\ si = 0
    /\ stc = NoCall
    /\ steps = << >>
    /\ presented = 0
    /\ sRoleCalls = 0
    /\ sExecs = 0
    /\ sImpl = 0
    /\ sBackups = 0
    /\ sWrites = 0
    /\ sLast = NoChoice
    /\ sExit = "none"

SessIdle ==
    /\ sess = [DryRun |-> FALSE, Yes |-> FALSE, MaxIterations |-> 0,
               HasTranscriptPath |-> FALSE, DefaultExtractor |-> TRUE]
    /\ spc = "idle"
    /\ si = 0
    /\ stc = NoCall
    /\ steps = << >>
    /\ presented = 0
    /\ sRoleCalls = 0
    /\ sExecs = 0
    /\ sImpl = 0
    /\ sBackups = 0
    /\ sWrites = 0
    /\ sLast = NoChoice
    /\ sExit = "none"

\* a return of StartSession ahead of handleToolCall
SessReturn(exit) ==
    /\ spc' = "returned"
    /\ sExit' = exit
    /\ UNCHANGED <<sess, si, stc, steps, presented, sRoleCalls, sExecs, sImpl,
                   sBackups, sWrites, sLast>>

\* a start that reports the abort and goes on to the role selection
StartConfirmedAbortGoesOn(c) ==
    IF c = "error" THEN SessReturn("start_error")
    ELSE /\ spc' = "confirmed"
         /\ sExit' = IF c = "no" THEN "declined" ELSE sExit
         /\ UNCHANGED <<sess, si, stc, steps, presented, sRoleCalls,
                        sExecs, sImpl, sBackups, sWrites, sLast>>

\* what StartSession does with the answer c of UI.Confirm: it returns on
\* an error, reports "Session aborted." and returns on false, goes on on true
StartConfirmed(c) ==
    IF c = "error" THEN SessReturn("start_error")
    ELSE IF c = "no" THEN SessReturn("declined")
    ELSE /\ spc' = "confirmed"
         /\ UNCHANGED <<sess, si, stc, steps, presented, sRoleCalls,
                        sExecs, sImpl, sBackups, sWrites, sLast, sExit>>

\* UI.Confirm("Start session?")
ConfirmStart ==
    /\ spc = "start"
    /\ \E c \in Confirm : StartConfirmed(c)
    /\ UNCHANGED <<valVars, execVars, chainVars, normVars, condVars>>

\* getRole, getInputs, the first ExecuteRoleFunc and the first extraction
FirstToolCall ==
    /\ spc = "confirmed"
    /\ \/ SessReturn("role_error")
       \/ SessReturn("input_error")
       \/ \E out \in RoleOutcomes :
            IF out.err
            THEN /\ spc' = "returned"
                 /\ sExit' = "execute_role_error"
                 /\ sRoleCalls' = sRoleCalls + 1
                 /\ UNCHANGED <<sess, si, stc, steps, presented, sExecs, sImpl,
                                sBackups, sWrites, sLast>>
            ELSE \E ex \in ExtractToolCall(SessExtractor, out.text) :
                   /\ sRoleCalls' = sRoleCalls + 1
                   /\ IF ex.found
                      THEN spc' = "handle" /\ stc' = ex.tc /\ sExit' = sExit
                      ELSE spc' = "returned" /\ stc' = stc
                           /\ sExit' = "no_tool_call"
                   /\ UNCHANGED <<sess, si, steps, presented, sExecs, sImpl,
                                  sBackups, sWrites, sLast>>
    /\ UNCHANGED <<valVars, execVars, chainVars, normVars, condVars>>

\* the value of i with which the loop goes on after the choice
NextIndexEditFree(choice, i) == IF choice = "edit" THEN i ELSE i + 1

NextIndex(choice, i) == i + 1

\* an iteration that records its step only on the paths that return
EndIterationStepOnReturn(choice, approved, events, roleCalled, goesOn, next) ==
    /\ presented' = presented + 1
    /\ steps' = IF goesOn THEN steps ELSE Append(steps, Step(choice, approved))
    /\ sRoleCalls' = sRoleCalls + (IF roleCalled THEN 1 ELSE 0)
    /\ sExecs' = sExecs + Count(events, "execute")
    /\ sImpl' = sImpl + Count(events, "impl")
    /\ sBackups' = sBackups + Count(events, "backup_made")
                   + Count(events, "backup_none") + Count(events, "backup_error")
    /\ sLast' = [choice |-> choice, call |-> stc, events |-> events]
    /\ IF goesOn
       THEN spc' = "handle" /\ si' = NextIndex(choice, si) /\ stc' = next
            /\ sExit' = sExit
       ELSE spc' = "write" /\ si' = si /\ stc' = stc
            /\ sExit' = "handle_return"
    /\ UNCHANGED <<sess, sWrites>>

\* the end of one iteration of handleToolCall: the step is appended and the
\* function returns or the loop goes on with the call next
EndIteration(choice, approved, events, roleCalled, goesOn, next) ==
    /\ presented' = presented + 1
    /\ steps' = Append(steps, Step(choice, approved))
    /\ sRoleCalls' = sRoleCalls + (IF roleCalled THEN 1 ELSE 0)
    /\ sExecs' = sExecs + Count(events, "execute")
    /\ sImpl' = sImpl + Count(events, "impl")
    /\ sBackups' = sBackups + Count(events, "backup_made")
                   + Count(events, "backup_none") + Count(events, "backup_error")
    /\ sLast' = [choice |-> choice, call |-> stc, events |-> events]
    /\ IF goesOn
       THEN spc' = "handle" /\ si' = NextIndex(choice, si) /\ stc' = next
            /\ sExit' = sExit
       ELSE spc' = "write" /\ si' = si /\ stc' = stc
            /\ sExit' = "handle_return"
    /\ UNCHANGED <<sess, sWrites>>

\* ExecuteRoleFunc and the extraction that follow an approval or a re-plan
NextToolCall(choice, approved, events) ==
    \E out \in RoleOutcomes :
        IF out.err
        THEN EndIteration(choice, approved, events, TRUE, FALSE, stc)
        ELSE \E ex \in ExtractToolCall(SessExtractor, out.text) :
               EndIteration(choice, approved, events, TRUE, ex.found, ex.tc)

\* a rejection after which the model is asked for another call
RejectToolCallAsksAgain(choice) == NextToolCall(choice, FALSE, << >>)

\* the choice "Reject", and a failure of PromptSelect: the step is appended
\* and handleToolCall returns
RejectToolCall(choice) ==
    EndIteration(choice, FALSE, << >>, FALSE, FALSE, stc)

\* one iteration of the loop of handleToolCall
HandleIteration ==
    /\ spc = "handle"
    /\ si < sess.MaxIterations
    /\ \E choice \in (IF sess.Yes THEN {"approve"}
                      ELSE {"approve", "edit", "reject", "replan", "error"}) :
         CASE choice = "approve" ->
                \E o \in approveAndExecute(stc, sess.DryRun) :
                    IF o.continueLoop
                    THEN NextToolCall(choice, TRUE, o.events)
                    ELSE EndIteration(choice, TRUE, o.events, FALSE, FALSE, stc)
           [] choice = "edit" ->
                \E edited \in SessCalls \cup {stc} :
                    EndIteration(choice, FALSE, << >>, FALSE, TRUE, edited)
           [] choice = "replan" ->
                \/ EndIteration(choice, FALSE, << >>, FALSE, FALSE, stc)
                \/ NextToolCall(choice, FALSE, << >>)
           [] OTHER ->
                RejectToolCall(choice)
    /\ UNCHANGED <<valVars, execVars, chainVars, normVars, condVars>>

\* the loop of handleToolCall ends because i reached MaxIterations
HandleExhausted ==
    /\ spc = "handle"
    /\ si >= sess.MaxIterations
    /\ spc' = "write"
    /\ sExit' = "handle_exhausted"
    /\ UNCHANGED <<sess, si, stc, steps, presented, sRoleCalls, sExecs, sImpl,
                   sBackups, sWrites, sLast>>
    /\ UNCHANGED <<valVars, execVars, chainVars, normVars, condVars>>

\* the end of StartSession after handleToolCall
WriteTranscript ==
    /\ spc = "write"
    /\ spc' = "returned"
    /\ sWrites' = sWrites + (IF sess.HasTranscriptPath THEN 1 ELSE 0)
    /\ UNCHANGED <<sess, si, stc, steps, presented, sRoleCalls, sExecs, sImpl,
                   sBackups, sLast, sExit>>
    /\ UNCHANGED <<valVars, execVars, chainVars, normVars, condVars>>

SessNext ==
    ConfirmStart \/ FirstToolCall \/ HandleIteration \/ HandleExhausted
    \/ WriteTranscript

----------------------------------------------------------------------------
(* Specifications                                                          *)

SpecValInit == ValInit /\ ExecIdle /\ ChainIdle /\ NormIdle /\ CondIdle /\ SessIdle
SpecVal == SpecValInit /\ [][ValNext]_vars

SpecChainInit == ChainInit /\ ValIdle /\ ExecIdle /\ NormIdle /\ CondIdle /\ SessIdle
SpecChain == SpecChainInit /\ [][ChainNext]_vars

SpecExecInit == ExecInit /\ ValIdle /\ ChainIdle /\ NormIdle /\ CondIdle /\ SessIdle
SpecExec == SpecExecInit /\ [][ExecNext]_vars

SpecNormInit == NormInit /\ ValIdle /\ ExecIdle /\ ChainIdle /\ CondIdle /\ SessIdle
SpecNorm == SpecNormInit /\ [][NormNext]_vars

SpecCondInit == CondInit /\ ValIdle /\ ExecIdle /\ ChainIdle /\ NormIdle /\ SessIdle
SpecCond == SpecCondInit /\ [][CondNext]_vars

SpecSessionInit ==
    SessInit /\ ValIdle /\ ExecIdle /\ ChainIdle /\ NormIdle /\ CondIdle
SpecSession == SpecSessionInit /\ [][SessNext]_vars

\* the user, the model and the tools answer: a session that can take a step
\* eventually takes one
SpecSessionFair == SpecSession /\ WF_vars(SessNext)

\* the caller and the scheduler make progress: a started goroutine is
\* eventually run; nothing makes a tool implementation return
SpecExecFair ==
    /\ SpecExecInit
    /\ [][ExecNext]_vars
    /\ WF_vars(ExecValidate \/ StartAttempt)
    /\ \A i \in Attempts : WF_vars(GoInvoke(i))

----------------------------------------------------------------------------
(* Properties of ToolExecutor.Execute                                      *)

\* max(1, RetryCount)
MaxOneRetryCount == IF te.RetryCount >= 1 THEN te.RetryCount ELSE 1

\* the attempts Execute has started
Started == {i \in Attempts : gor[i] # "none"}

\* attempt i failed: its select took the timeout case, or it took the done
\* case of a goroutine whose toolImpl.Execute returned an error
AttemptFailed(i) ==
    \/ branch[i] = "timeout"
    \/ branch[i] = "done" /\ implRes[i] = "err"

\* the failure of attempt i
FailureOf(i) ==
    IF branch[i] = "timeout" THEN ErrTimeout(eCall.Name, i)
    ELSE ErrImpl(eCall.Name, i)

\* C1: when every one of the max(1, RetryCount) attempts has failed, Execute
\* returns a non-nil error, the failure of the final attempt, in every
\* interleaving with the goroutines of abandoned attempts.
C1_ReturnsLastFailure ==
    (/\ epc = "done"
     /\ attempt >= 1
     /\ \A i \in 1..MaxOneRetryCount : AttemptFailed(i))
    => /\ ret.err # NilErr
       /\ ret.err = FailureOf(MaxOneRetryCount)

\* C2: when the implementation returned an error in invocations 1..k-1 and
\* success in invocation k, and attempt k saw its goroutine finish, Execute
\* returns a nil error with the result of invocation k and has started no
\* attempt after k.
C2_SuccessAtK ==
    epc = "done" =>
        \A k \in 1..MaxOneRetryCount :
            (/\ \A i \in 1..(k - 1) : implRes[i] = "err"
             /\ implRes[k] = "ok"
             /\ branch[k] = "done")
            => /\ ret.err = NilErr
               /\ ret.res = k
               /\ Started = 1..k

\* C3: with Timeout > 0 and an implementation that has not returned when the
\* timeout of its attempt elapses, Execute starts exactly max(1, RetryCount)
\* attempts and then returns a timeout error.
C3_TimeoutAfterAllAttempts ==
    (/\ epc = "done"
     /\ te.Timeout > 0
     /\ attempt >= 1
     /\ \A i \in 1..MaxOneRetryCount : branch[i] = "timeout" /\ ~early[i])
    => /\ Started = 1..MaxOneRetryCount
       /\ ret.err.kind = "timeout"

\* the call passes validation and has a registered implementation
Executable ==
    /\ ValidateToolCall(te.Registry, eCall) = NilErr
    /\ HasToolImpl(te.Registry, eCall.Name)

C4_Safe ==
    /\ ~Executable =>
          /\ invocations = 0
          /\ Started = {}
          /\ epc = "done" => ret.returned /\ ret.err # NilErr
    /\ invocations <= MaxOneRetryCount
    /\ Cardinality(Started) <= MaxOneRetryCount

\* C4: Execute validates first: a call that fails validation or has no
\* registered implementation gets an error and the implementation is never
\* invoked; any other call has the implementation invoked at least once and
\* at most max(1, RetryCount) times.
C4_ValidateFirst ==
    /\ [](epc # "idle" => C4_Safe)
    /\ (epc = "start" /\ Executable) ~> (invocations >= 1)

\* a call with a missing required argument was turned down without any
\* invocation
C4_Witness ==
    /\ epc = "done"
    /\ ret.err.kind = "missing_argument"
    /\ invocations = 0

----------------------------------------------------------------------------
(* Properties of ExecuteChain                                              *)

\* C5: a step with loop = true, loop_count = N and a loop_condition has its
\* role invoked exactly k times, k the first iteration after which the
\* condition evaluated true, or N when none did; with the condition
\* {{.tool_call.name}} == 'write_file' and a role that returns list_dir tool
\* calls before its iteration k <= N and a write_file tool call at it, the
\* step has exactly k invocations.
C5_LoopEarlyExit ==
    (cpc = "done" /\ cret.err = "nil") =>
        /\ \A s \in 1..Len(chain) :
              (/\ chain[s].Loop
               /\ chain[s].LoopCount > 0
               /\ chain[s].LoopCondition # EmptyCond)
              => stepCalls[s] = IF condTrueAt[s] > 0 THEN condTrueAt[s]
                                ELSE chain[s].LoopCount
        /\ (/\ chain[1].Loop
            /\ chain[1].LoopCount >= script.at
            /\ chain[1].LoopCondition = CondWriteFile
            /\ script.first = ListDirAnswer
            /\ script.then = WriteFileAnswer
            /\ script.errAt = 0)
           => stepCalls[1] = script.at

\* C6: once ExecuteRole has returned an error, ExecuteChain has returned an
\* error and has done no role invocation, tool-call extraction, tool
\* execution, file write or context update after it.
C6_RoleErrorAborts ==
    roleErrSeen =>
        /\ cpc = "done"
        /\ cret.err # "nil"
        /\ workAfterErr = NoWork

----------------------------------------------------------------------------
(* Properties of ValidateToolCall and of the extractor's registry check    *)

Validated == vpc \in {"validated", "extracted"}

WriteFileCamelCall ==
    ToolCall(N_WriteFile, (K_filePath :> StrV(S_x)) @@ (K_content :> StrV(S_x)))
WriteFileSnakeCall ==
    ToolCall(N_write_file, (K_file_path :> StrV(S_x)) @@ (K_content :> StrV(S_x)))

\* C7: with the default tools registered, ValidateToolCall accepts both the
\* call WriteFile{filePath, content} and the call write_file{file_path,
\* content}.
C7_CasingTolerant ==
    (/\ Validated
     /\ vReg = DefaultRegistry
     /\ vCall \in {WriteFileCamelCall, WriteFileSnakeCall})
    => vErr = NilErr

\* key lookup after normalization of both keys
NormKey(k) == ToLower(toSnakeCaseLocal(k))
AbsentUnderBothLookups(call, name) ==
    /\ name \notin DOMAIN call.Arguments
    /\ \A k \in DOMAIN call.Arguments : NormKey(k) # NormKey(name)

\* the indexes of the schema arguments that are required and absent from
\* the call, and of those present with a value of another type
MissingAt(schema, call) ==
    {i \in 1..Len(schema.Arguments) :
        /\ schema.Arguments[i].Required
        /\ schema.Arguments[i].Name \notin DOMAIN call.Arguments}
IllTypedAt(schema, call) ==
    {i \in 1..Len(schema.Arguments) :
        /\ schema.Arguments[i].Name \in DOMAIN call.Arguments
        /\ LET v == call.Arguments[schema.Arguments[i].Name]
           IN  \/ schema.Arguments[i].Type = "string" /\ v.t # "string"
               \/ schema.Arguments[i].Type = "int" /\ v.t # "int"
               \/ schema.Arguments[i].Type = "bool" /\ v.t # "bool"}
Least(S) == CHOOSE i \in S : \A j \in S : i <= j

C9_IntTolerance ==
    (/\ Validated
     /\ vReg = TestIntRegistry
     /\ vCall.Name = N_TestInt
     /\ DOMAIN vCall.Arguments = {K_count})
    => /\ vCall.Arguments[K_count] = FloatV(20) => vErr = NilErr
       /\ vCall.Arguments[K_count] = FloatV(25) => vErr # NilErr

\* the texts that hold a well-formed write-file tool call
WriteFileTexts ==
    LET wf == {c \in TextCalls :
                  /\ c.Name \in {N_WriteFile, N_write_file, N_writeFile}
                  /\ DOMAIN c.Arguments \in {{K_filePath, K_content},
                                             {K_file_path, K_content}}}
    IN  UNION {{JSONText(EnvelopeJSON(c.Name, c.Arguments)),
                JSONText(BareJSON(c.Name, c.Arguments)),
                FencedText(EnvelopeJSON(c.Name, c.Arguments)),
                InlineText(EnvelopeJSON(c.Name, c.Arguments))} : c \in wf}

\* C10: an extractor built with the registry of the default tools extracts
\* the write-file tool call of a text under each of the names WriteFile,
\* write_file, writeFile and each of the keys filePath, file_path.
C10_ExtractorAcceptsVariants ==
    (/\ vpc = "extracted"
     /\ vExt.withReg
     /\ vReg = DefaultRegistry
     /\ vText \in WriteFileTexts)
    => vExt.found

----------------------------------------------------------------------------
(* Properties of ExtractToolCall                                           *)

Extracting == vpc = "extracted"

\* the extractor of the harness step
UsedExtractor == NewDefaultToolCallExtractor(vExt.withReg, vReg)

\* the registry check passes for the call c, whichever normalized copy the
\* map iteration produces
Admits(c) == \A norm \in normalizeToolCall(c) : Accepts(UsedExtractor, norm)

\* C11: for a text whose tool call is only inside a fenced json block the
\* extractor reports "json_code_block", for the same call as inline braces
\* it reports "inline_json", and both return the tool call of the text, when
\* the extractor has no registry or its registry check passes for the call.
C11_StrategyReported ==
    Extracting =>
        \A c \in TextCalls :
            (/\ vText.j = EnvelopeJSON(c.Name, c.Arguments)
             /\ c.Name # << >>
             /\ Admits(c)) =>
                /\ vText.shape = "fenced"
                   => vExt = [found |-> TRUE, tc |-> c,
                              handler |-> "json_code_block",
                              withReg |-> vExt.withReg]
                /\ vText.shape \in {"inline", "json"}
                   => vExt = [found |-> TRUE, tc |-> c,
                              handler |-> "inline_json",
                              withReg |-> vExt.withReg]

\* a fenced camelCase call was extracted by an extractor whose registry
\* knows the tool under its snake_case name
C11_Witness ==
    /\ Extracting
    /\ vExt.withReg
    /\ vReg = SnakeRegistry
    /\ vText = FencedText(EnvelopeJSON(N_WriteFile,
                   (K_filePath :> StrV(S_x)) @@ (K_content :> StrV(S_x))))
    /\ vExt.found
    /\ vExt.handler = "json_code_block"

\* the texts of the harness that hold the tool call c
TextsOf(c) ==
    {JSONText(EnvelopeJSON(c.Name, c.Arguments)),
     JSONText(BareJSON(c.Name, c.Arguments)),
     FencedText(EnvelopeJSON(c.Name, c.Arguments)),
     InlineText(EnvelopeJSON(c.Name, c.Arguments))}

\* C12: when no strategy yields a valid candidate (text without a tool
\* call, or a call the registry check turns down) ExtractToolCall returns
\* no ToolCall, an empty strategy name and the error; whenever it returns a
\* nil error the ToolCall has a non-empty name and the strategy is one of
\* json_recursive, json_code_block, inline_json.
C12_OutcomeShape ==
    Extracting =>
        /\ vText \in {PlainText, ProseBraces,
                      JSONText(MapV(K_text :> StrV(S_hello)))}
           => ~vExt.found
        /\ \A c \in TextCalls :
              (/\ vText \in TextsOf(c)
               /\ \/ c.Name = << >>
                  \/ \A norm \in normalizeToolCall(c) :
                        ~Accepts(UsedExtractor, norm))
              => ~vExt.found
        /\ ~vExt.found => vExt.tc = NoCall /\ vExt.handler = ""
        /\ vExt.found =>
              /\ vExt.tc.Name # << >>
              /\ vExt.handler \in {"json_recursive", "json_code_block",
                                   "inline_json"}

\* an extractor without a registry found no tool call in "... { not a
\* tool }"
C12_Witness ==
    /\ Extracting
    /\ ~vExt.withReg
    /\ vText = ProseBraces
    /\ vExt = [found |-> FALSE, tc |-> NoCall, handler |-> "",
               withReg |-> FALSE]

\* the tool call written in the text S_embedded stands for
EmbeddedCall ==
    ToolCall(N_WriteFile, (K_filePath :> StrV(S_a_txt)) @@ (K_content :> StrV(S_x)))

\* C13: the ToolCall that ExtractToolCall returns has exactly the name, the
\* argument keys and the argument values written in the text, not their
\* normalized forms: normalization, done on a copy, only decides validation.
C13_OriginalReturned ==
    (Extracting /\ vExt.found) =>
        \/ \E c \in TextCalls : vText \in TextsOf(c) /\ vExt.tc = c
        \/ /\ vText = JSONText(MapV(K_text :> StrV(S_embedded)))
           /\ vExt.tc = EmbeddedCall
        \/ /\ vText = NestedText
           /\ vExt.tc \in {EmbeddedCall, ToolCall(N_list_dir, (K_content :> StrV(S_embedded)))}
        \/ /\ vText = TwoEmbeddedText
           /\ vExt.tc \in {EmbeddedCall, ToolCall(N_list_dir, (K_content :> StrV(S_x)))}

\* a camelCase call passed the check of a snake_case registry and came back
\* in camelCase
C13_Witness ==
    /\ Extracting
    /\ vExt.withReg
    /\ vReg = SnakeRegistry
    /\ vExt.found
    /\ vExt.tc.Name = N_writeFile
    /\ DOMAIN vExt.tc.Arguments = {K_filePath, K_content}

\* C14: an extractor built without a registry validates nothing: it returns
\* the first candidate, in the order whole-JSON string search, fenced block,
\* inline object, that parses with a non-empty name, whatever the name and
\* the arguments are.
C14_NoRegistryFirstCandidate ==
    (Extracting /\ ~vExt.withReg) =>
        /\ vText \in {NestedText, JSONText(MapV(K_text :> StrV(S_embedded)))}
           => vExt = [found |-> TRUE, tc |-> EmbeddedCall,
                      handler |-> "json_recursive", withReg |-> FALSE]
        /\ \A c \in TextCalls :
             (vText \in TextsOf(c) /\ c.Name # << >>) =>
                 vExt = [found |-> TRUE, tc |-> c,
                         handler |-> IF vText.shape = "fenced"
                                     THEN "json_code_block"
                                     ELSE "inline_json",
                         withReg |-> FALSE]

\* the call inside a string argument wins over the call that carries it,
\* and no registered name matches either
C14_Witness ==
    /\ Extracting
    /\ ~vExt.withReg
    /\ vReg = DefaultRegistry
    /\ vText = NestedText
    /\ vExt.found
    /\ vExt.tc = EmbeddedCall
    /\ vExt.handler = "json_recursive"

----------------------------------------------------------------------------
(* Properties of toSnakeCaseLocal                                          *)

\* C15: normalization is idempotent: for every name or argument key s,
\* toSnakeCaseLocal(toSnakeCaseLocal(s)) = toSnakeCaseLocal(s).
C15_NormalizeIdempotent ==
    npc = 2 => nTwice = nOnce

\* a camelCase key gained an underscore the first time and nothing the
\* second time
C15_Witness ==
    /\ npc = 2
    /\ nIn = <<"a", "B", "Z">>
    /\ nOnce = <<"a", "_", "b", "_", "z">>
    /\ nTwice = nOnce

----------------------------------------------------------------------------
(* Properties of ExecuteChain, continued                                   *)

LoopsByDefault(chainRole) ==
    /\ chainRole.Loop
    /\ chainRole.LoopCount <= 0
    /\ chainRole.LoopCondition = EmptyCond

\* C16: a step with loop = true and neither a positive loop_count nor a
\* loop_condition runs its role exactly once: never twice, and once by the
\* time the chain has moved past the step.
C16_LoopDefaultOnce ==
    \A s \in 1..Len(chain) :
        LoopsByDefault(chain[s]) =>
            /\ stepCalls[s] <= 1
            /\ stepIdx > s => stepCalls[s] = 1

\* a two-step chain ran to its end through such a step
C16_Witness ==
    /\ cret = ReturnedChain("nil")
    /\ Len(chain) = 2
    /\ LoopsByDefault(chain[1])
    /\ stepCalls[1] = 1
    /\ stepCalls[2] > 1

NamesMissingRole(ch) ==
    \E s \in 1..Len(ch) : RoleKey(ch[s]) \notin DOMAIN CfgRoles

\* C17: when some step of the chain names a role that is not in the role
\* set, ExecuteChain ends with the role-not-found error, and no role has
\* been invoked and no tool executed for that chain.
C17_MissingRoleNothingRun ==
    NamesMissingRole(chain) =>
        /\ roleCalls = 0
        /\ toolExecs = 0
        /\ cret.returned => cret.err = "role_not_found"

\* a pass through the loop body has been made and the extractor returned no
\* tool call for its text
NoCallIteration == last.n > 0 /\ ~last.found

\* C18: a pass whose model output yields no tool call from the extractor
\* executes no tool and writes no file, and the value stored under the
\* step's output key is the text of that pass.
C18_NoCallNoEffect ==
    NoCallIteration =>
        /\ last.exec = NoExecute
        /\ ~last.wrote
        /\ last.key # << >> => context[last.key] = TextV(last.text)

\* C19: after every pass through the loop body the context holds the key
\* tool_call exactly when the extraction of that pass succeeded, and then
\* with the name and arguments of that pass; after a pass without a tool
\* call the key is absent.
C19_ToolCallKeyFresh ==
    last.n > 0 =>
        /\ K_tool_call \in DOMAIN context <=> last.found
        /\ last.found =>
               context[K_tool_call] = BareJSON(last.tc.Name, last.tc.Arguments)

\* the pass l ran a tool: ToolExecutor.Execute on an extracted call, or
\* tools.WriteFile in the fallback
RanTool(l) == l.n > 0 /\ (l.found \/ l.wrote)

S_written == <<"#written">>

\* what the tool run by pass l returned, as the claim wants it stored
ToolResponseOf(l) ==
    IF l.found
    THEN IF l.exec.err # NilErr THEN ExecErrorResponse(l.tc.Name)
         ELSE l.exec.res
    ELSE IF l.writeErr THEN ExecErrorResponse(N_write_file)
         ELSE StrV(S_written)

\* C20: after a pass that ran a tool, the input of the next role invocation
\* holds under lastToolResponse the tool's result, or on failure the map
\* {error, tool, exec_error}, and under lastToolResponse_json its JSON
\* rendering.
C20_ToolResultReachesNextRole ==
    [][(RanTool(last) /\ last'.n = last.n + 1) =>
           /\ last'.input[K_lastToolResponse] = ToolResponseOf(last)
           /\ last'.input[K_lastToolResponse_json] = StrV(<<"#json">>)]_vars

\* the model output of the most recent pass is a write_file tool call in the
\* wire format {"tool_call": {"name": ..., "arguments": {...}}}
WriteFileCallMade ==
    last.n > 0 /\ last.text \in {WriteFileAnswer, CamelAnswer}

\* C21: for a step with an output key, after every pass context[output_key]
\* is the content field of the tool result when the tool result has one and
\* otherwise the raw or extracted text of the pass; after a pass that made a
\* write_file call it is that call's content.
C21_OutputRecorded ==
    (last.n > 0 /\ last.key # << >>) =>
        /\ IF lastToolResponse.t = "map" /\ K_content \in DOMAIN lastToolResponse.f
           THEN context[last.key] = lastToolResponse.f[K_content]
           ELSE context[last.key] \in
                    {TextV(last.text), TextV(CleanResponse(last.text))}
        /\ WriteFileCallMade => context[last.key] = StrV(S_x)

----------------------------------------------------------------------------
(* Properties of evaluateLoopCondition                                     *)

S_true  == <<"t", "r", "u", "e">>
S_false == <<"f", "a", "l", "s", "e">>
Blank   == {" ", "\t", "\n", "\r"}
Quotes  == {"\"", "'"}

\* the positions at which op occurs in r
Occurrences(r, op) ==
    {i \in 1..(Len(r) - Len(op) + 1) : SubSeq(r, i, i + Len(op) - 1) = op}

\* r read as <left> op <right> around its first op: whether left, without
\* the blanks around it, equals right without the blanks and quotes around it
SidesEqual(r, op) ==
    \E i \in Occurrences(r, op) :
        /\ \A j \in Occurrences(r, op) : i <= j
        /\ Trim(SubSeq(r, 1, i - 1), Blank)
             = Trim(SubSeq(r, i + Len(op), Len(r)), Blank \cup Quotes)

\* what the claim says the rendered text r evaluates to; a text holding ==
\* is read as an equality, one holding only != as an inequality
ConditionMeaning(r) ==
    LET t == Trim(r, Blank)
    IN  CASE ToLower(t) = S_true  -> TRUE
          [] ToLower(t) = S_false -> FALSE
          [] OTHER ->
               IF Occurrences(t, <<"=", "=">>) # {}
               THEN SidesEqual(t, <<"=", "=">>)
               ELSE IF Occurrences(t, <<"!", "=">>) # {}
                    THEN ~SidesEqual(t, <<"!", "=">>)
                    ELSE FALSE

\* C22: on the rendered text r evaluateLoopCondition returns no error and
\* is true for "true" in any casing, false for "false" in any casing, for
\* <left> == <right> true exactly when left equals right with the quotes
\* around right stripped, for <left> != <right> true exactly when they
\* differ, and false for every other text.
C22_ConditionMeaning ==
    lcpc = "done" =>
        /\ ~lcOut.err
        /\ lcOut.val = ConditionMeaning(lcText)

\* an equality whose right-hand side is quoted was found true
C22_Witness ==
    /\ lcpc = "done"
    /\ lcText = <<"a", "=", "=", "'", "a", "'">>
    /\ lcOut = [err |-> FALSE, val |-> TRUE]

----------------------------------------------------------------------------
(* Properties of ExecuteChain: the loop condition                          *)

\* C23: a pass in which rendering the step's loop_condition fails does not
\* end ExecuteChain and does not end the loop: the step goes on to its next
\* pass unless it was the last one its iteration bound allows.
C23_ConditionErrorContinues ==
    [][(last'.n = last.n + 1 /\ last'.condErr) =>
           /\ cpc' = "run"
           /\ cret' = NotReturnedChain
           /\ IF iter + 1 < LoopCountOf(chain[stepIdx])
              THEN stepIdx' = stepIdx /\ iter' = iter + 1
              ELSE stepIdx' = stepIdx + 1 /\ iter' = 0]_vars

\* a step whose condition failed to render in its last pass ran all the
\* passes of its loop_count and the chain returned without error
C23_Witness ==
    /\ cret = ReturnedChain("nil")
    /\ Len(chain) = 1
    /\ chain[1].LoopCondition = CondFieldOfString
    /\ last.condErr
    /\ stepCalls[1] = MaxLoopCount

----------------------------------------------------------------------------
(* Properties of the interactive session                                   *)

\* C24: handleToolCall presents a tool call at most MaxIterations times,
\* and once entered it returns, whatever the user chooses and whatever the
\* model answers.
C24_SessionTerminates ==
    /\ [](presented <= sess.MaxIterations)
    /\ (spc = "handle" ~> spc = "write")

\* handleToolCall ran out of iterations after an edit and a re-plan
C24_Witness ==
    /\ sExit = "handle_exhausted"
    /\ sess.MaxIterations = MaxSessionIterations
    /\ presented = sess.MaxIterations
    /\ steps[1].choice = "edit"
    /\ steps[2].choice = "replan"

\* the number of steps that record an approve, reject or re-plan decision
RECURSIVE Decisions(_)
Decisions(ss) ==
    IF ss = << >> THEN 0
    ELSE (IF Head(ss).choice \in {"approve", "reject", "replan"} THEN 1 ELSE 0)
         + Decisions(Tail(ss))

\* C25: an edit does not use up one of the MaxIterations iterations: when
\* handleToolCall stops because the iterations ran out, the user has made
\* MaxIterations approve, reject or re-plan decisions.
C25_EditKeepsIterations ==
    sExit = "handle_exhausted" => Decisions(steps) = sess.MaxIterations

\* the events of the most recent iteration hold ev
Happened(ev) == \E k \in 1..Len(sLast.events) : sLast.events[k] = ev

\* an approval outside dry-run
ApprovedForReal == sLast.choice = "approve" /\ ~sess.DryRun

\* C26: outside dry-run the executor is called for a write_file call only
\* after the confirmation was given and then the backup succeeded, and for a
\* run_command call only after its confirmation was given; after a
\* confirmation that was declined or failed the executor is not called.
C26_ConfirmBackupExecute ==
    ApprovedForReal =>
        /\ (IsWriteFile(sLast.call) /\ Happened("execute")) =>
               /\ Len(sLast.events) >= 3
               /\ sLast.events[1] = "apply_yes"
               /\ sLast.events[2] \in {"backup_made", "backup_none"}
               /\ sLast.events[3] = "execute"
        /\ (IsRunCommand(sLast.call) /\ Happened("execute")) =>
               /\ Len(sLast.events) >= 2
               /\ sLast.events[1] = "run_yes"
               /\ sLast.events[2] = "execute"
        /\ (\E ev \in {"apply_no", "apply_error", "run_no", "run_error",
                       "backup_error"} : Happened(ev))
               => ~Happened("execute") /\ ~Happened("impl")

\* a confirmed file write was backed up and then executed
C26_Witness ==
    /\ ApprovedForReal
    /\ IsWriteFile(sLast.call)
    /\ sLast.events = <<"apply_yes", "backup_made", "execute", "impl">>

\* C27: in a session with DryRun set the executor is never called, no tool
\* implementation runs and no backup is made.
C27_DryRunExecutesNothing ==
    sess.DryRun => sExecs = 0 /\ sImpl = 0 /\ sBackups = 0

\* a dry-run session in which every presented call was approved, the last
\* of them a file write
C27_Witness ==
    /\ sess.DryRun
    /\ Len(steps) = MaxSessionIterations
    /\ \A k \in 1..Len(steps) : steps[k].choice = "approve" /\ steps[k].approved
    /\ IsWriteFile(sLast.call)
    /\ StringArg(sLast.call, K_file_path)

\* C28: the iteration in which the user rejects calls neither the
\* executor nor the model, records a step that is not approved and ends
\* handleToolCall; nothing is presented, executed or asked of the model
\* afterwards.
C28_RejectEnds ==
    [][/\ (presented' = presented + 1 /\ sLast'.choice = "reject") =>
              /\ steps' = Append(steps, Step("reject", FALSE))
              /\ sLast'.call = stc
              /\ sExecs' = sExecs /\ sImpl' = sImpl /\ sBackups' = sBackups
              /\ sRoleCalls' = sRoleCalls
              /\ spc' = "write"
       /\ sLast.choice = "reject" =>
              /\ presented' = presented /\ steps' = steps
              /\ sExecs' = sExecs /\ sImpl' = sImpl /\ sBackups' = sBackups
              /\ sRoleCalls' = sRoleCalls
              /\ spc' = "returned"]_vars

\* the user approved a call and rejected the next one, and StartSession
\* returned
C28_Witness ==
    /\ spc = "returned"
    /\ Len(steps) = 2
    /\ steps[1] = Step("approve", TRUE)
    /\ steps[2] = Step("reject", FALSE)
    /\ sLast.choice = "reject"
    /\ sRoleCalls = 2

\* C29: each decision on a presented call appends one step: the transcript
\* holds as many steps as calls were presented, and at most MaxIterations.
C29_OneStepPerDecision ==
    /\ Len(steps) = presented
    /\ Len(steps) <= sess.MaxIterations
    /\ sLast.choice # "none" =>
           /\ steps[Len(steps)].choice = sLast.choice
           /\ steps[Len(steps)].approved = (sLast.choice = "approve")

\* an approval and then an edit, each with its step
C29_Witness ==
    /\ sess.MaxIterations = MaxSessionIterations
    /\ presented = 2
    /\ steps = <<Step("approve", TRUE), Step("edit", FALSE)>>

\* StartSession returned from a session whose start the user confirmed
ConfirmedSessionReturned ==
    spc = "returned" /\ sExit \notin {"none", "start_error", "declined"}

\* C30: when StartSession returns from a confirmed session that has a
\* TranscriptPath, the transcript was written exactly once, however the
\* session ended.
C30_TranscriptWrittenOnce ==
    (ConfirmedSessionReturned /\ sess.HasTranscriptPath) => sWrites = 1

\* C31: a session whose start the user declined is reported as aborted
\* and StartSession has returned: no role was selected or invoked, nothing
\* was extracted, presented or executed, and nothing happens afterwards.
C31_DeclinedStartAborts ==
    /\ [](sExit = "declined" =>
              /\ spc = "returned"
              /\ sRoleCalls = 0 /\ stc = NoCall /\ presented = 0
              /\ steps = << >>
              /\ sExecs = 0 /\ sImpl = 0 /\ sBackups = 0 /\ sWrites = 0)
    /\ [][sExit = "declined" => UNCHANGED sessVars]_vars

\* StartSession returned from a declined start
C31_Witness ==
    spc = "returned" /\ sExit = "declined" /\ sRoleCalls = 0

----------------------------------------------------------------------------
(* Properties of the extractor and the executor together                   *)

\* C32: a call that an extractor built with a registry returns passes the
\* validation and the implementation lookup that ToolExecutor.Execute makes
\* with the same registry on the returned name and keys.
C32_ExtractedCallExecutes ==
    (Extracting /\ vExt.withReg /\ vExt.found) =>
        /\ ValidateToolCall(vReg, vExt.tc) = NilErr
        /\ HasToolImpl(vReg, vExt.tc.Name)

----------------------------------------------------------------------------
(* Properties of ExtractToolCall: the order of the strategies              *)

\* the strategies in the order the claim gives them
Strategies == <<"json_recursive", "json_code_block", "inline_json", "yaml_block">>

\* the candidates the k-th strategy can produce for the text of the harness
Candidates(k) ==
    LET parsed(j) == IF parseToolCallJSON(j).ok
                     THEN {parseToolCallJSON(j).tc} ELSE {}
    IN  CASE k = 1 -> IF Whole(vText).t = "invalid" THEN {}
                      ELSE findToolCallInJSON(Whole(vText))
          [] k = 2 -> parsed(Fence(vText))
          [] k = 3 -> parsed(Inline(vText))
          [] OTHER -> {}

\* the registry check can pass, and can fail, for the candidate c
MayPass(c) == \E norm \in normalizeToolCall(c) : Accepts(UsedExtractor, norm)
MayFail(c) == \E norm \in normalizeToolCall(c) : ~Accepts(UsedExtractor, norm)

\* the k-th strategy can end without a valid candidate
CanFail(k) == Candidates(k) = {} \/ \E c \in Candidates(k) : MayFail(c)

\* the k-th strategy can only end with a valid candidate
MustPass(k) ==
    Candidates(k) # {} /\ \A c \in Candidates(k) : MayPass(c) /\ ~MayFail(c)

\* C33: the strategies are tried in the order whole-text scan, fenced
\* block, inline braces, further handlers; the result is the candidate of
\* the first strategy whose candidate parses and passes the registry check,
\* and a strategy without a valid candidate leaves the later ones their turn:
\* no tool call is reported only when every strategy ended without one.
C33_StrategyOrder ==
    Extracting =>
        /\ vExt.found =>
              \E k \in 1..Len(Strategies) :
                  /\ vExt.handler = Strategies[k]
                  /\ vExt.tc \in Candidates(k)
                  /\ MayPass(vExt.tc)
                  /\ \A j \in 1..(k - 1) : CanFail(j)
        /\ ~vExt.found => \A k \in 1..Len(Strategies) : CanFail(k)
        /\ \A k \in 1..Len(Strategies) :
              (MustPass(k) /\ \A j \in 1..(k - 1) : ~(\E c \in Candidates(j) : MayPass(c)))
                  => vExt.found /\ vExt.handler = Strategies[k]

\* the call found by the whole-text scan was turned down by the registry,
\* the text has no fenced block, and the inline strategy returned the
\* enclosing call
C33_Witness ==
    /\ Extracting
    /\ vExt.withReg
    /\ vReg = ListDirRegistry
    /\ vText = NestedText
    /\ vExt.found
    /\ vExt.handler = "inline_json"
    /\ vExt.tc.Name = N_list_dir

----------------------------------------------------------------------------
(* Properties of ToolExecutor.Execute: the MetricsHook events              *)

OutcomeNames == {"tool_call_success", "tool_call_failure", "tool_call_timeout"}

\* the events of the attempts and their outcomes, in the order emitted
AttemptLevel == SelectSeq(hook,
    LAMBDA e : e.name \in OutcomeNames \cup {"tool_call_attempt"})

\* attempt and outcome events alternate: every outcome event follows the
\* event of its attempt, and attempts are numbered from 1
EventsAlternate ==
    \A k \in 1..Len(AttemptLevel) :
        IF k % 2 = 1
        THEN /\ AttemptLevel[k].name = "tool_call_attempt"
             /\ AttemptLevel[k].attempt = (k + 1) \div 2
        ELSE AttemptLevel[k].name \in OutcomeNames

\* C34: each attempt hands the hook one tool_call_attempt event and then one
\* outcome event (success, failure or timeout) before the next attempt's
\* event, and each of these events carries the tool name and the number of
\* the attempt.
C34_AttemptThenOutcome ==
    /\ EventsAlternate
    /\ (epc = "done" /\ attempt > 0) => Len(AttemptLevel) % 2 = 0
    /\ \A k \in 1..Len(AttemptLevel) :
          /\ {"tool", "attempt"} \subseteq AttemptLevel[k].keys
          /\ AttemptLevel[k].tool = eCall.Name
          /\ AttemptLevel[k].attempt = (k + 1) \div 2

----------------------------------------------------------------------------
(* Properties of ExecuteChain: order, visibility, freshness                *)

\* a pass through the loop body is made in this step
PassMade == roleCalls' = roleCalls + 1

\* the output keys of the passes made so far
RecordedKeys ==
    {chain[s].OutputKey : s \in {t \in 1..Len(chain) : stepCalls[t] > 0}}
    \ {<< >>}

\* C35: the passes are made one at a time, step after step in the declared
\* order and, within a looping step, iteration after iteration; the inputs
\* of a pass are rendered against a context that holds the output keys all
\* earlier passes recorded, with the values they have now; the caller's
\* initial-input map stays as it was.
C35_OrderAndVisibility ==
    /\ [](RecordedKeys \subseteq DOMAIN context)
    /\ [](initialInput \in InitialInputs \/ cpc = "idle")
    /\ [][/\ initialInput' = initialInput
          /\ PassMade =>
               /\ last'.n = roleCalls + 1
               /\ stepCalls' = [stepCalls EXCEPT ![stepIdx] = iter + 1]
               /\ \A t \in (stepIdx + 1)..Len(chain) : stepCalls[t] = 0
               /\ \/ stepIdx' = stepIdx /\ iter' = iter + 1
                  \/ stepIdx' = stepIdx + 1 /\ iter' = 0
               /\ \A k \in DOMAIN chain[stepIdx].Input :
                     chain[stepIdx].Input[k].tmpl =>
                        last'.input[k] =
                            StrV(Render(chain[stepIdx].Input[k].t, context).out)
               /\ \A k \in RecordedKeys \ {chain[stepIdx].OutputKey} :
                     k \in DOMAIN context' /\ context'[k] = context[k]
               /\ chain[stepIdx].OutputKey # << >> =>
                     chain[stepIdx].OutputKey \in DOMAIN context'
         ]_vars

\* the second step of a chain rendered its templated input against the
\* context that holds the output key of the first step
C35_Witness ==
    /\ Len(chain) = 2
    /\ chain[1].OutputKey = K_pre_design
    /\ chain[2].Input = DesignInput
    /\ stepCalls[1] > 1
    /\ stepCalls[2] = 1
    /\ last.n = roleCalls
    /\ context[K_pre_design] = StrV(S_x)
    /\ last.input[K_problem] = StrV(S_x)
    /\ initialInput # context

\* some templated input of the step does not render against the context
InputFails(chainRole) ==
    \E k \in DOMAIN chainRole.Input :
        chainRole.Input[k].tmpl /\ ~Render(chainRole.Input[k].t, context).ok

\* C36: the role receives each templated input as rendered against the
\* current context and every other input as given; when a templated input
\* of a step whose role exists fails to render, ExecuteChain returns an
\* error that names the role of the step, without invoking the role in that
\* pass or later.
C36_InputRendering ==
    /\ [][PassMade =>
            \A k \in DOMAIN chain[stepIdx].Input :
               LET inp == chain[stepIdx].Input[k]
               IN  IF inp.tmpl
                   THEN /\ Render(inp.t, context).ok
                        /\ last'.input[k] = StrV(Render(inp.t, context).out)
                   ELSE last'.input[k] = inp.v]_vars
    /\ [][(/\ cpc = "run"
           /\ stepIdx <= Len(chain)
           /\ RoleKey(chain[stepIdx]) \in DOMAIN CfgRoles
           /\ InputFails(chain[stepIdx])) =>
               /\ cpc' = "done"
               /\ cret' = ChainError("input_template", RoleKey(chain[stepIdx]))
               /\ roleCalls' = roleCalls /\ modelCalls' = modelCalls]_vars
    /\ [][cret.returned => roleCalls' = roleCalls /\ modelCalls' = modelCalls]_vars

\* the first step recorded a text under pre_design and the input
\* {{.pre_design.name}} of the second step failed to render: the chain
\* returned the error naming architect after the passes of the first step
C36_Witness ==
    /\ cpc = "done"
    /\ cret = ChainError("input_template", R_architect)
    /\ Len(chain) = 2
    /\ stepCalls[1] > 0
    /\ stepCalls[2] = 0
    /\ roleCalls = stepCalls[1]

\* the bound on the role invocations of one step
InvocationBound(chainRole) ==
    IF chainRole.Loop /\ chainRole.LoopCount > 0 THEN chainRole.LoopCount
    ELSE IF chainRole.Loop /\ chainRole.LoopCondition # EmptyCond THEN 100
    ELSE 1

\* the calls of the pass about to be made have an outcome: ExecuteRole,
\* ExtractToolCall and Execute each return something
PassReturns ==
    (/\ stepIdx <= Len(chain)
     /\ RoleKey(chain[stepIdx]) \in DOMAIN CfgRoles
     /\ RoleInput(chain[stepIdx], context, lastToolResponse).ok) =>
        LET ros == ExecuteRole(CfgRoles[RoleKey(chain[stepIdx])],
                       RoleInput(chain[stepIdx], context, lastToolResponse).m,
                       Answer(script, modelCalls + 1))
        IN  /\ ros # {}
            /\ \A ro \in ros :
                  ExtractToolCall(
                      NewDefaultToolCallExtractor(TRUE, DefaultRegistry),
                      GeminiText(ro.out)) # {}

\* C37: ExecuteChain returns when its calls return: as long as it has not
\* returned it can take a step, and every step it takes is a role
\* invocation or the return; no step of the chain makes more role
\* invocations than its bound (loop_count for a looping step that has one,
\* 100 for a looping step with only a loop_condition, 1 otherwise); every
\* step that was completed made at least one, because its loop_condition is
\* evaluated only at the end of a pass.
C37_ChainTerminates ==
    /\ [](cpc = "run" => stepIdx <= Len(chain) + 1 /\ PassReturns)
    /\ [][PassMade \/ (cpc = "run" /\ cpc' = "done")]_vars
    /\ [](\A s \in 1..Len(chain) :
             /\ stepCalls[s] <= InvocationBound(chain[s])
             /\ (s < stepIdx \/ (cpc = "done" /\ cret.err = "nil"))
                    => stepCalls[s] >= 1
             /\ condTrueAt[s] > 0 => condTrueAt[s] = stepCalls[s])
    /\ [][(condTrueAt' # condTrueAt \/ last'.condErr # last.condErr)
             => PassMade]_vars

\* a looping step with only a loop_condition made its 100 invocations, and
\* a step whose condition held from the start made one
C37_Witness ==
    \/ /\ cret = ReturnedChain("nil")
       /\ Len(chain) = 1
       /\ chain[1].Loop /\ chain[1].LoopCount = 0
       /\ stepCalls[1] = 100
    \/ /\ cret = ReturnedChain("nil")
       /\ chain[1].LoopCondition = CondWriteFile
       /\ K_tool_call \in DOMAIN initialInput
       /\ condTrueAt[1] = 1
       /\ stepCalls[1] = 1

----------------------------------------------------------------------------
(* Properties of ExtractToolCall: determinism                              *)

\* C38: for one text and one registry ExtractToolCall has one outcome: the
\* same ToolCall, the same strategy name and the same error in every run.
C38_ExtractionDeterministic ==
    Extracting =>
        \A r \in ExtractToolCall(UsedExtractor, vText) :
            /\ r.found = vExt.found
            /\ r.tc = vExt.tc
            /\ r.handler = vExt.handler

----------------------------------------------------------------------------
(* Properties of ExtractToolCall: the canonical envelope                   *)

\* the call NestedText is the canonical envelope of
NestedCall == ToolCall(N_list_dir, (K_content :> StrV(S_embedded)))

\* C39: for a text that is exactly one canonical envelope of a call with
\* name N and arguments A, an extractor without registry, or with a registry
\* that accepts the call, returns the call N, A, also when a string value
\* of A holds a tool call: an embedded string never replaces the call that
\* carries it.
C39_EnvelopeReturned ==
    Extracting =>
        \A c \in TextCalls \cup {NestedCall} :
            (vText = JSONText(EnvelopeJSON(c.Name, c.Arguments)) /\ Admits(c))
                => vExt.found /\ vExt.tc = c

----------------------------------------------------------------------------
(* Properties of ExecuteChain: freshness of lastToolResponse               *)

\* what pass l leaves for the next role invocation: nothing when there was
\* no pass or the pass ran no tool, else what its tool returned
FreshResponse(l) ==
    IF l.n > 0 /\ RanTool(l) THEN ToolResponseOf(l) ELSE NilV

\* C40: the lastToolResponse given to a role invocation reflects only the
\* role invocation right before it in the chain, also across a step
\* boundary: it is the result or the error map of the tool run after that
\* invocation, and it is nil, with lastToolResponse_json = "", when that
\* invocation made no tool call or when there is no invocation before.
C40_LastToolResponseFresh ==
    [][last'.n = last.n + 1 =>
           /\ last'.input[K_lastToolResponse] = FreshResponse(last)
           /\ last'.input[K_lastToolResponse_json] =
                  StrV(IF FreshResponse(last).t = "nil" THEN << >>
                       ELSE <<"#json">>)]_vars

====
